---------------------------- MODULE Spec2Model ----------------------------
(***************************************************************************)
(* A model of the Spectronaut reader of mspypeline (SpectroReader) and of  *)
(* the analysis-design helpers of mspypeline.helpers.Utils.                *)
(*                                                                         *)
(* Python strings are sequences of one-character strings, so that split,   *)
(* join, concatenation and substring tests are computed, not assumed.      *)
(* A Python dict is an insertion-ordered sequence of <<key, value>> pairs  *)
(* with unique keys; two dicts are equal (Python ==) when they hold the    *)
(* same keys with equal values, whatever the order.                        *)
(***************************************************************************)
EXTENDS Integers, Sequences, FiniteSets, TLC

(***************************************************************************)
(* Bounds of the model.                                                    *)
(***************************************************************************)
\* the most columns of a table
MaxCols == 2
\* the most names handed to get_analysis_design
MaxNames == 3
\* the most row identifiers handed to format_double_indx
MaxIndx == 5

(***************************************************************************)
(* Strings.                                                                *)
(***************************************************************************)
RECURSIVE SplitFrom(_, _, _, _, _)
\* str.split(sep) scanning from position i: cur is the piece being read,
\* acc the pieces finished so far
SplitFrom(s, sep, i, cur, acc) ==
    IF i > Len(s) THEN Append(acc, cur)
    ELSE IF s[i] = sep THEN SplitFrom(s, sep, i + 1, <<>>, Append(acc, cur))
    ELSE SplitFrom(s, sep, i + 1, Append(cur, s[i]), acc)

\* s.split(sep): always at least one piece, empty pieces are kept
Split(s, sep) == SplitFrom(s, sep, 1, <<>>, <<>>)

\* s.split(sep, 1): cut at the first sep only
Split1(s, sep) ==
    IF \E i \in 1..Len(s) : s[i] = sep
    THEN LET i == CHOOSE j \in 1..Len(s) :
                      s[j] = sep /\ \A h \in 1..(j - 1) : s[h] # sep
         IN  <<SubSeq(s, 1, i - 1), SubSeq(s, i + 1, Len(s))>>
    ELSE <<s>>

RECURSIVE Join(_, _)
\* sep.join(parts)
Join(sep, parts) ==
    IF Len(parts) = 0 THEN <<>>
    ELSE IF Len(parts) = 1 THEN parts[1]
    ELSE parts[1] \o <<sep>> \o Join(sep, Tail(parts))

\* sub in s
Contains(s, sub) ==
    \E i \in 1..(Len(s) - Len(sub) + 1) : SubSeq(s, i, i + Len(sub) - 1) = sub

\* the elements of a sequence
Range(q) == {q[i] : i \in DOMAIN q}

(***************************************************************************)
(* Values: a str, a dict, or a defaultdict (collections.defaultdict made   *)
(* by the factory of get_analysis_design).                                 *)
(***************************************************************************)
Str(s) == [t |-> "str", s |-> s, items |-> <<>>]
Dict(items) == [t |-> "dict", s |-> <<>>, items |-> items]
DDict(items) == [t |-> "ddict", s |-> <<>>, items |-> items]
IsMapping(o) == o.t \in {"dict", "ddict"}

Keys(d) == {d.items[i][1] : i \in DOMAIN d.items}
KeyIndex(d, k) == CHOOSE i \in DOMAIN d.items : d.items[i][1] = k
\* d[k] of a key that is present
Lookup(d, k) == d.items[KeyIndex(d, k)][2]
\* d[k] = v: a present key keeps its place, a new key goes last
SetItem(d, k, v) ==
    IF k \in Keys(d)
    THEN [d EXCEPT !.items[KeyIndex(d, k)] = <<k, v>>]
    ELSE [d EXCEPT !.items = Append(@, <<k, v>>)]

\* the outcome of a call: a value returned, or an exception raised.  names
\* are the sample names the exception's message holds: no function modelled
\* here has a raise statement, every exception comes from the interpreter
\* (a str "+= 1", a list index out of range), and its message holds no
\* value of the program
Ok(v) == [exc |-> "none", val |-> v, names |-> {}]
Raise(e) == [exc |-> e, val |-> Str(<<>>), names |-> {}]

RECURSIVE DictEq(_, _)
\* Python's == on str and dict values (a defaultdict equals a dict with the
\* same items)
DictEq(a, b) ==
    IF IsMapping(a) /\ IsMapping(b)
    THEN /\ Keys(a) = Keys(b)
         /\ \A k \in Keys(a) : DictEq(Lookup(a, k), Lookup(b, k))
    ELSE a.t = "str" /\ b.t = "str" /\ a.s = b.s


(***************************************************************************)
(* SpectroReader.dictizeString (SpectroReader.py:192-204).  The dictionary *)
(* is changed in place in the source; here the changed dictionary is the   *)
(* value returned.                                                         *)
(***************************************************************************)
\* SetDefault with "dictionary[key] = {}" in the place of setdefault
SetDefaultReset(dictionary, key) == SetItem(dictionary, key, Dict(<<>>))

\* dictionary.setdefault(key, {}): the dictionary after the call
SetDefault(dictionary, key) ==
    IF key \in Keys(dictionary) THEN dictionary
    ELSE SetItem(dictionary, key, Dict(<<>>))

\* DictizeLeaf storing the part of the name left over, not final_value
DictizeLeafPart(key, final_value, dictionary) ==
    IF ~IsMapping(dictionary) THEN Raise("TypeError")
    ELSE IF key \in Keys(dictionary) THEN Raise("TypeError")
    ELSE Ok(SetItem(dictionary, key, Str(key)))

\* DictizeLeaf storing the value over a key that is present
DictizeLeafOver(key, final_value, dictionary) ==
    IF ~IsMapping(dictionary) THEN Raise("TypeError")
    ELSE Ok(SetItem(dictionary, key, Str(final_value)))

\* lines 200-204, the last part of the name: a key that is present gets
\* "+= 1", which raises TypeError on the str or dict stored there; a str in
\* the place of the dictionary supports neither the read nor the assignment
DictizeLeaf(key, final_value, dictionary) ==
    IF ~IsMapping(dictionary) THEN Raise("TypeError")
    ELSE IF key \in Keys(dictionary) THEN Raise("TypeError")
    ELSE Ok(SetItem(dictionary, key, Str(final_value)))

RECURSIVE dictizeString(_, _, _)
dictizeString(string, final_value, dictionary) ==
    LET parts == Split1(string, "_")
    IN  IF Len(parts) > 1
        THEN IF ~IsMapping(dictionary)
             THEN Raise("AttributeError")   \* a str has no setdefault
             ELSE LET d1 == SetDefault(dictionary, parts[1])
                      r == dictizeString(parts[2], final_value, Lookup(d1, parts[1]))
                  IN  IF r.exc # "none" THEN r
                      ELSE Ok(SetItem(d1, parts[1], r.val))
        ELSE DictizeLeaf(parts[1], final_value, dictionary)

(***************************************************************************)
(* fill_dict, default_to_regular and get_analysis_design                   *)
(* (helpers/Utils.py:26-47).                                               *)
(***************************************************************************)
\* d[key] read on the way down: a defaultdict makes the missing branch, a
\* plain dict raises KeyError, a str cannot be indexed by a str
GetItem(d, key) ==
    IF d.t = "str" THEN Raise("TypeError")
    ELSE IF key \in Keys(d) THEN Ok(d)
    ELSE IF d.t = "ddict" THEN Ok(SetItem(d, key, DDict(<<>>)))
    ELSE Raise("KeyError")

\* line 32, d[s_split[0]] = s: whatever the key held before is replaced
FillLeaf(d, key, s) ==
    IF ~IsMapping(d) THEN Raise("TypeError")
    ELSE Ok(SetItem(d, key, Str(s)))

RECURSIVE fill_dict(_, _, _)
\* s_split is never None here: the caller passes s.split("_") (lines 27-28)
fill_dict(d, s, s_split) ==
    IF Len(s_split) > 1
    THEN LET g == GetItem(d, s_split[1])
         IN  IF g.exc # "none" THEN g
             ELSE LET r == fill_dict(Lookup(g.val, s_split[1]), s, Tail(s_split))
                  IN  IF r.exc # "none" THEN r
                      ELSE Ok(SetItem(g.val, s_split[1], r.val))
    ELSE FillLeaf(d, s_split[1], s)

RECURSIVE default_to_regular(_)
default_to_regular(d) ==
    IF d.t = "ddict"
    THEN Dict([i \in DOMAIN d.items |->
                 <<d.items[i][1], default_to_regular(d.items[i][2])>>])
    ELSE d

RECURSIVE FillAll(_, _, _)
\* the loop of get_analysis_design from the i-th name on
FillAll(d, nms, i) ==
    IF i > Len(nms) THEN Ok(d)
    ELSE LET r == fill_dict(d, nms[i], Split(nms[i], "_"))
         IN  IF r.exc # "none" THEN r ELSE FillAll(r.val, nms, i + 1)

get_analysis_design(nms) ==
    LET r == FillAll(DDict(<<>>), nms, 1)
    IN  IF r.exc # "none" THEN r ELSE Ok(default_to_regular(r.val))

(***************************************************************************)
(* dict_depth (helpers/Utils.py:176-187): a breadth-first walk; the value  *)
(* returned is the level of the last entry taken from the queue.  id(o) is *)
(* the path of keys leading to o: the designs are trees, no object is      *)
(* reachable by two paths.                                                 *)
(***************************************************************************)
\* Children without the "+ 1" of line 186
ChildrenSameLevel(e) ==
    [i \in DOMAIN e.o.items |->
        [id |-> Append(e.id, e.o.items[i][1]), o |-> e.o.items[i][2],
         level |-> e.level]]

\* line 186: the values of o, one level down, in the order of the dict
Children(e) ==
    [i \in DOMAIN e.o.items |->
        [id |-> Append(e.id, e.o.items[i][1]), o |-> e.o.items[i][2],
         level |-> e.level + 1]]

RECURSIVE DepthLoop(_, _, _)
DepthLoop(queue, memo, level) ==
    IF queue = <<>> THEN level
    ELSE LET e == Head(queue)
         IN  IF e.id \in memo THEN DepthLoop(Tail(queue), memo, e.level)
             ELSE DepthLoop(IF IsMapping(e.o) THEN Tail(queue) \o Children(e)
                                              ELSE Tail(queue),
                            memo \cup {e.id}, e.level)

dict_depth(d) == DepthLoop(<<[id |-> <<>>, o |-> d, level |-> 0]>>, {}, 0)

(***************************************************************************)
(* SpectroReader.format_spektrocols (SpectroReader.py:157-189).            *)
(***************************************************************************)
\* new_col before the first assignment to it
Unbound == <<"<unbound>">>
\* an attribute of the reader that was never assigned
NoneVal == [t |-> "None", s |-> <<>>, items |-> <<>>]

REP == <<"r", "e", "p">>

\* lines 167-169: the part between the first blank and the next dot, split
\* on "_"
ColIdentifier(col) ==
    LET p == Split(col, " ")
    IN  IF Len(p) < 2 THEN Raise("IndexError")
        ELSE Ok(Split(Split(p[2], ".")[1], "_"))

\* line 181, five parts left
Fuse5(c) == c[1] \o c[2] \o <<"_">> \o c[3] \o <<"_">> \o c[4] \o c[5]
\* Fuse4Rep with the first two parts fused, whatever the last part holds
Fuse4RepAsNoRep(c) == c[1] \o c[2] \o <<"_">> \o c[3] \o <<"_">> \o c[4]

\* line 184, four parts left and "rep" in the last one
Fuse4Rep(c) == c[1] \o <<"_">> \o c[2] \o <<"_">> \o c[3] \o c[4]
\* Fuse4NoRep without the fusing of the first two parts
Fuse4NoRepApart(c) == c[1] \o <<"_">> \o c[2] \o <<"_">> \o c[3] \o <<"_">> \o c[4]

\* line 186, four parts left and no "rep" in the last one
Fuse4NoRep(c) == c[1] \o c[2] \o <<"_">> \o c[3] \o <<"_">> \o c[4]

\* lines 176-186, more than three parts: the two leading parts are dropped;
\* when no rule matches, new_col keeps the value of the column before
LongCol(cur_col, new_col) ==
    LET c == SubSeq(cur_col, 3, Len(cur_col))
    IN  IF Len(c) = 3 THEN Join("_", c)
        ELSE IF Len(c) = 5 THEN Fuse5(c)
        ELSE IF Len(c) = 4
             THEN IF Contains(c[4], REP) THEN Fuse4Rep(c) ELSE Fuse4NoRep(c)
        ELSE new_col

\* lines 171-186: new_col after the column's rule is applied
NewCol(cur_col, new_col) ==
    IF Len(cur_col) <= 2
    THEN IF Len(cur_col) < 2 THEN Raise("IndexError")
         ELSE Ok(cur_col[1] \o <<"_">> \o cur_col[2])
    ELSE IF Len(cur_col) = 3
    THEN Ok(cur_col[1] \o <<"_">> \o cur_col[2] \o <<"_">> \o cur_col[3])
    ELSE Ok(LongCol(cur_col, new_col))

RECURSIVE FormatLoop(_, _, _)
\* the loop of lines 166-188 from the i-th column on; acc holds the locals
FormatLoop(acc, cols, i) ==
    IF i > Len(cols) THEN acc
    ELSE LET id == ColIdentifier(cols[i])
         IN  IF id.exc # "none" THEN [acc EXCEPT !.exc = id.exc, !.names = id.names]
             ELSE LET nc == NewCol(id.val, acc.new_col)
                  IN  IF nc.exc # "none"
                      THEN [acc EXCEPT !.exc = nc.exc, !.names = nc.names]
                      ELSE IF nc.val = Unbound
                      THEN [acc EXCEPT !.exc = "UnboundLocalError"]
                      ELSE LET r == dictizeString(nc.val, nc.val, acc.analysis_design)
                           IN  IF r.exc # "none"
                               THEN [acc EXCEPT !.exc = r.exc, !.names = r.names,
                                                !.new_col = nc.val,
                                                !.processed_cols = Append(@, nc.val)]
                               ELSE FormatLoop(
                                      [processed_cols |-> Append(acc.processed_cols, nc.val),
                                       analysis_design |-> r.val,
                                       new_col |-> nc.val,
                                       exc |-> "none", names |-> {}], cols, i + 1)

\* the locals at the return of line 189, or at the raise (exc, with the
\* sample names its message holds)
format_spektrocols(cols) ==
    FormatLoop([processed_cols |-> <<>>, analysis_design |-> Dict(<<>>),
                new_col |-> Unbound, exc |-> "none", names |-> {}], cols, 1)

(***************************************************************************)
(* SpectroReader.__init__ from the table on (SpectroReader.py:65-76).      *)
(***************************************************************************)
QUANTITY == <<"Q", "u", "a", "n", "t", "i", "t", "y">>

\* re.search(".Quantity", col): "Quantity" with one character before it
MatchesQuantity(col) ==
    \E i \in 2..(Len(col) - Len(QUANTITY) + 1) :
        SubSeq(col, i, i + Len(QUANTITY) - 1) = QUANTITY

\* df.filter(regex=(".Quantity")).columns
FilterQuantity(cols) == SelectSeq(cols, MatchesQuantity)

\* Put that forgets the other keys
PutAlone(config, key, value) ==
    [k \in {key} |-> value]

\* reader_config[key] = value
Put(config, key, value) ==
    [k \in DOMAIN config \cup {key} |-> IF k = key THEN value ELSE config[k]]

\* not self.reader_config.get("all_replicates", False)
NoReplicates(config) ==
    "all_replicates" \notin DOMAIN config \/ config["all_replicates"] = <<>>

\* not self.reader_config.get("analysis_design", False)
NoDesign(config) ==
    "analysis_design" \notin DOMAIN config \/ config["analysis_design"].items = <<>>

\* lines 75-76
StoreLevels(config, design) ==
    LET c1 == Put(config, "levels", dict_depth(design))
    IN  Put(c1, "level_names", [x \in 1..c1["levels"] |-> x - 1])

\* StoreConfig storing what the file gives whatever the configuration holds
StoreConfigAlways(config, formatted_proteins_txt_columns, design) ==
    StoreLevels(Put(Put(config, "all_replicates", formatted_proteins_txt_columns),
                    "analysis_design", design), design)

\* lines 71-76
StoreConfig(config, formatted_proteins_txt_columns, design) ==
    LET c1 == IF NoReplicates(config)
              THEN Put(config, "all_replicates", formatted_proteins_txt_columns)
              ELSE config
    IN  IF NoDesign(c1)
        THEN StoreLevels(Put(c1, "analysis_design", design), design)
        ELSE c1

(***************************************************************************)
(* SpectroReader.format_double_indx (SpectroReader.py:136-155) and the     *)
(* index of preprocess_proteins (SpectroReader.py:116-119).                *)
(***************************************************************************)
\* a missing identifier: the float nan that read_csv gives an empty cell
NaN == <<"<NaN>">>
NANSTR == <<"n", "a", "n">>

Digit(n) == <<"0", "1", "2", "3", "4", "5", "6", "7", "8", "9">>[n + 1]
RECURSIVE IntStr(_)
\* str(n) of an int n >= 0
IntStr(n) == IF n < 10 THEN <<Digit(n)>> ELSE IntStr(n \div 10) \o <<Digit(n % 10)>>

\* str(ind) of a row identifier
PyStr(ind) == IF ind = NaN THEN NANSTR ELSE ind

\* indx.duplicated(): every occurrence after the first (nan equals nan)
Duplicated(indx, i) == \E j \in 1..(i - 1) : indx[j] = indx[i]

\* DoubledIndx taken from indx, not from indx[indx.duplicated()]
DoubledIndxAll(indx) == {PyStr(indx[i]) : i \in DOMAIN indx}

\* line 145
DoubledIndx(indx) == {PyStr(indx[i]) : i \in {j \in DOMAIN indx : Duplicated(indx, j)}}

\* CntGet of a defaultdict(int), which counts from 0
CntGetFromZero(cnt, ind) == IF ind \in DOMAIN cnt THEN cnt[ind] ELSE 0

\* cnt[ind] of the defaultdict(lambda: 1)
CntGet(cnt, ind) == IF ind \in DOMAIN cnt THEN cnt[ind] ELSE 1

\* line 151: the renamed identifier
Renamed(ind, k) == ind \o <<"_">> \o IntStr(k)

RECURSIVE RenameLoop(_, _, _, _, _)
\* the loop of lines 148-154 from the i-th identifier on
RenameLoop(indx, doubled_indx, i, cnt, new_indx) ==
    IF i > Len(indx) THEN new_indx
    ELSE LET ind == PyStr(indx[i])
         IN  IF ind \in doubled_indx
             THEN RenameLoop(indx, doubled_indx, i + 1,
                             Put(cnt, ind, CntGet(cnt, ind) + 1),
                             Append(new_indx, Renamed(ind, CntGet(cnt, ind))))
             ELSE RenameLoop(indx, doubled_indx, i + 1, cnt, Append(new_indx, ind))

format_double_indx(indx) == RenameLoop(indx, DoubledIndx(indx), 1, <<>>, <<>>)

\* df.index.fillna("nan")
FillNa(index) == [i \in DOMAIN index |-> IF index[i] = NaN THEN NANSTR ELSE index[i]]

\* lines 116-119: self.format_double_indx is the bound method, which is
\* always true, so the identifiers are always renamed
PreprocessIndex(use_index) == FillNa(format_double_indx(use_index))

(***************************************************************************)
(* Tables.  A cell of a DataFrame is a str, a float (held by its decimal   *)
(* digits), a bool or the float nan of an empty field; a DataFrame is its  *)
(* column names and its rows, in the order of the file.  The row labels    *)
(* of a table read by read_csv are the row numbers.                        *)
(***************************************************************************)
TRUESTR == <<"T", "r", "u", "e">>
FALSESTR == <<"F", "a", "l", "s", "e">>
FILTERED == <<"F", "i", "l", "t", "e", "r", "e", "d">>
ZERO == <<"0">>

TextCell(s) == [t |-> "str", s |-> s]
NumCell(s) == [t |-> "num", s |-> s]
BoolCell(b) == [t |-> "bool", s |-> IF b THEN TRUESTR ELSE FALSESTR]
NaNCell == [t |-> "nan", s |-> <<>>]

Frame(columns, rows) == [columns |-> columns, rows |-> rows]
\* pd.DataFrame()
EmptyFrame == Frame(<<>>, <<>>)
\* df.shape[1]
Width(df) == Len(df.columns)
HasCol(df, name) == \E i \in DOMAIN df.columns : df.columns[i] = name
ColPos(df, name) == CHOOSE i \in DOMAIN df.columns : df.columns[i] = name
\* df[name]
Column(df, name) == [r \in DOMAIN df.rows |-> df.rows[r][ColPos(df, name)]]
\* the positions 1..n in order
Positions(n) == [i \in 1..n |-> i]

(***************************************************************************)
(* SpectroReader.preprocess_df (SpectroReader.py:206-255).  The rows that  *)
(* line 227 appends are appended to the caller's table; the value returned *)
(* is another table (line 228).                                            *)
(***************************************************************************)
PROTEINGROUPS ==
    <<"P", "G", ".", "P", "r", "o", "t", "e", "i", "n", "G", "r", "o", "u", "p", "s">>
DOTQUANTITY == <<".", "Q", "u", "a", "n", "t", "i", "t", "y">>
DOTIBAQ == <<".", "I", "B", "A", "Q">>
DOTiBAQ == <<".", "i", "B", "A", "Q">>
DOTLFQ == <<".", "L", "F", "Q">>

\* the outcome of preprocess_df: df is the table returned (when exc is
\* "none"), raw the caller's table as the call left it
DfOk(df, raw) == [exc |-> "none", df |-> df, raw |-> raw]
DfRaise(e, raw) == [exc |-> e, df |-> EmptyFrame, raw |-> raw]

\* line 214: the rows with ";" in PG.ProteinGroups
DuplRow(df) ==
    SelectSeq(Positions(Len(df.rows)),
              LAMBDA r : Contains(df.rows[r][ColPos(df, PROTEINGROUPS)].s, <<";">>))

\* the cell of a new row whose split has no i-th part
NoPart == [t |-> "IndexError", s |-> <<>>]

\* lines 220-226: the i-th new row takes the i-th part of every str cell
\* that holds a ";", whatever its column
NewRowCell(cell, i) ==
    IF cell.t = "str" /\ Contains(cell.s, <<";">>)
    THEN LET parts == Split(cell.s, ";")
         IN  IF i > Len(parts) THEN NoPart ELSE TextCell(parts[i])
    ELSE cell

RECURSIVE ExpandLoop(_, _, _, _)
\* the loops of lines 215-227 from the i-th part of the k-th row of dupl_row
ExpandLoop(df, dupl_row, k, i) ==
    IF k > Len(dupl_row) THEN [exc |-> "none", df |-> df]
    ELSE LET row == df.rows[dupl_row[k]]
             g == ColPos(df, PROTEINGROUPS)
             cell_genes == Split(row[g].s, ";")
         IN  IF i > Len(cell_genes) THEN ExpandLoop(df, dupl_row, k + 1, 1)
             ELSE LET new_row == [c \in DOMAIN row |-> NewRowCell(row[c], i)]
                  IN  IF \E c \in DOMAIN row : new_row[c] = NoPart
                      THEN [exc |-> "IndexError", df |-> df]
                      ELSE ExpandLoop([df EXCEPT !.rows = Append(@, new_row)],
                                      dupl_row, k, i + 1)

\* line 228-229: df.drop(labels=dupl_row), renumbered
Dropped(df, dupl_row) ==
    LET kept == SelectSeq(Positions(Len(df.rows)), LAMBDA r : r \notin Range(dupl_row))
    IN  [df EXCEPT !.rows = [k \in DOMAIN kept |-> df.rows[kept[k]]]]

\* str.find and str.rfind of one character: 0 here for the -1 of Python
Find(s, c) ==
    IF \E i \in DOMAIN s : s[i] = c
    THEN CHOOSE i \in DOMAIN s : s[i] = c /\ \A j \in 1..(i - 1) : s[j] # c
    ELSE 0
RFind(s, c) ==
    IF \E i \in DOMAIN s : s[i] = c
    THEN CHOOSE i \in DOMAIN s : s[i] = c /\ \A j \in (i + 1)..Len(s) : s[j] # c
    ELSE 0

RECURSIVE ThousandSep(_, _)
\* lines 232-240 over the str items of the last row, from the k-th on
ThousandSep(items, k) ==
    IF k > Len(items) THEN ","
    ELSE IF Find(items[k], ",") # RFind(items[k], ",") THEN ","
    ELSE IF Find(items[k], ".") # RFind(items[k], ".") THEN "."
    ELSE ThousandSep(items, k + 1)

\* x.replace(old, new) and x.replace(old, '') of one character
Replace(s, old, new) == [i \in DOMAIN s |-> IF s[i] = old THEN new ELSE s[i]]
Remove(s, old) == SelectSeq(s, LAMBDA c : c # old)

Digits == {"0", "1", "2", "3", "4", "5", "6", "7", "8", "9"}
\* float(s) does not raise: digits with at most one dot (the texts of the
\* tables hold no sign, exponent, blank or underscore)
IsFloat(s) ==
    /\ \A i \in DOMAIN s : s[i] \in Digits \cup {"."}
    /\ \E i \in DOMAIN s : s[i] \in Digits
    /\ Find(s, ".") = RFind(s, ".")

RECURSIVE StripLeft(_, _)
StripLeft(s, c) == IF s # <<>> /\ Head(s) = c THEN StripLeft(Tail(s), c) ELSE s
RECURSIVE StripRight(_, _)
StripRight(s, c) ==
    IF s # <<>> /\ s[Len(s)] = c THEN StripRight(SubSeq(s, 1, Len(s) - 1), c) ELSE s

\* the float float(s): equal floats have equal digits
Float(s) ==
    LET p == Split(s, ".")
        whole == IF StripLeft(p[1], "0") = <<>> THEN ZERO ELSE StripLeft(p[1], "0")
        frac == IF Len(p) > 1 THEN StripRight(p[2], "0") ELSE <<>>
    IN  NumCell(IF frac = <<>> THEN whole ELSE whole \o <<".">> \o frac)

\* lines 243-250, convert_string: the ValueError of the second float()
\* is raised inside the handler of the first and leaves the function
ConvertString(x, thousand_sep) ==
    IF x.t # "str" THEN x
    ELSE IF IsFloat(Replace(x.s, ",", ".")) THEN Float(Replace(x.s, ",", "."))
    ELSE LET a == Remove(x.s, thousand_sep)
         IN  IF IsFloat(Replace(a, ",", ".")) THEN Float(Replace(a, ",", "."))
             ELSE [t |-> "ValueError", s |-> <<>>]

\* is_numeric_dtype(df[col])
IsNumericCol(df, c) == \A r \in DOMAIN df.rows : df.rows[r][c].t \in {"num", "nan", "bool"}

\* line 251
IsIntensityCol(col) ==
    \/ Contains(col, DOTQUANTITY) \/ Contains(col, DOTIBAQ)
    \/ Contains(col, DOTiBAQ) \/ Contains(col, DOTLFQ)

\* lines 251-253: the columns to convert, converted
Converted(df, thousand_sep) ==
    [df EXCEPT !.rows =
        [r \in DOMAIN df.rows |->
            [c \in DOMAIN df.columns |->
                IF IsIntensityCol(df.columns[c]) /\ ~IsNumericCol(df, c)
                THEN ConvertString(df.rows[r][c], thousand_sep)
                ELSE df.rows[r][c]]]]

preprocess_df(df) ==
    IF \E r \in DOMAIN df.rows : df.rows[r][ColPos(df, PROTEINGROUPS)].t # "str"
    THEN DfRaise("TypeError", df)      \* line 214: ";" in a float
    ELSE LET dupl_row == DuplRow(df)
             e == ExpandLoop(df, dupl_row, 1, 1)
         IN  IF e.exc # "none" THEN DfRaise(e.exc, e.df)
             ELSE LET d == Dropped(e.df, dupl_row)
                  IN  IF d.rows = <<>> THEN DfRaise("KeyError", e.df)   \* line 231
                      ELSE LET last_row == d.rows[Len(d.rows)]
                               items == SelectSeq(SubSeq(last_row, 4, Len(last_row)),
                                                  LAMBDA x : x.t = "str")
                               sep == ThousandSep([k \in DOMAIN items |-> items[k].s], 1)
                               c == Converted(d, sep)
                           IN  IF \E r \in DOMAIN c.rows : \E k \in DOMAIN c.columns :
                                      c.rows[r][k].t = "ValueError"
                               THEN DfRaise("ValueError", e.df)
                               ELSE DfOk(c, e.df)

(***************************************************************************)
(* SpectroReader.ext_change (SpectroReader.py:122-134).  A directory is a  *)
(* function from the names of its files to their contents; os.listdir      *)
(* gives the names in an order of its own choosing.                        *)
(***************************************************************************)
XLS == <<".", "x", "l", "s">>
CSV == <<".", "c", "s", "v">>
TSV == <<".", "t", "s", "v">>

\* file.endswith(ext)
EndsWith(file, ext) ==
    Len(file) >= Len(ext) /\ SubSeq(file, Len(file) - Len(ext) + 1, Len(file)) = ext

\* os.path.splitext(file)[0] of a name that ends with an extension
SplitExtRoot(file) == SubSeq(file, 1, RFind(file, ".") - 1)

\* os.replace(old, new): new holds what old held, old is gone
OsReplace(fs, old, new) ==
    [f \in (DOMAIN fs \ {old}) \cup {new} |-> IF f = new THEN fs[old] ELSE fs[f]]

\* lines 125-133, one file of the listing
ExtStep(acc, file) ==
    IF EndsWith(file, XLS)
    THEN [fs |-> OsReplace(acc.fs, file, SplitExtRoot(file) \o CSV),
          list_files |-> Append(acc.list_files, SplitExtRoot(file) \o CSV)]
    ELSE IF EndsWith(file, CSV) \/ EndsWith(file, TSV)
    THEN [acc EXCEPT !.list_files = Append(@, file)]
    ELSE acc

RECURSIVE ExtLoop(_, _, _)
ExtLoop(acc, listing, k) ==
    IF k > Len(listing) THEN acc
    ELSE ExtLoop(ExtStep(acc, listing[k]), listing, k + 1)

\* ext_change on the directory fs that os.listdir lists as listing: the
\* list returned and the directory left
ext_change(fs, listing) == ExtLoop([fs |-> fs, list_files |-> <<>>], listing, 1)

\* the orders os.listdir may give the names of a directory in
Listings(fs) ==
    {q \in [1..Cardinality(DOMAIN fs) -> DOMAIN fs] :
        \A i, j \in DOMAIN q : i # j => q[i] # q[j]}

(***************************************************************************)
(* The sniffing loop (SpectroReader.py:49-64 and 83-97).  pandas.read_csv  *)
(* is a library call: what it gives for a file under each separator, a     *)
(* table or an exception, is the content of the file.                      *)
(***************************************************************************)
SEPARATORS == <<",", "\t", ";">>

ParseOk(df) == [exc |-> "none", df |-> df]
ParseRaise(e) == [exc |-> e, df |-> EmptyFrame]

\* file_dir = [] (lines 53-54): read_csv raises ValueError on a list
NoFile == [s \in Range(SEPARATORS) |-> ParseRaise("ValueError")]

\* line 58: df after the call of preprocess_df, which returns a table or
\* raises and leaves the table read with the rows it had appended
Preprocessed(p) == IF p.exc = "none" THEN p.df ELSE p.raw

\* lines 56-61: df after the try of one separator; an exception of
\* read_csv leaves df as it was
Attempt(r, df) ==
    IF r.exc # "none" THEN df
    ELSE IF r.df.columns[1] = PROTEINGROUPS THEN Preprocessed(preprocess_df(r.df))
    ELSE r.df

\* Accepted taking a table of one column
AcceptedAny(df) == Width(df) > 0

\* line 62
Accepted(df) == Width(df) > 1

RECURSIVE SniffLoop(_, _, _, _)
\* lines 62-64 for the k-th separator, df the table its try left
SniffBreak(read, k, df, tried) ==
    IF Accepted(df)
    THEN [df |-> df, tried |-> Append(tried, SEPARATORS[k])]
    ELSE SniffLoop(read, k + 1, df, Append(tried, SEPARATORS[k]))

\* the loop from the k-th separator on: the table, the separators tried
SniffLoop(read, k, df, tried) ==
    IF k > Len(SEPARATORS) THEN [df |-> df, tried |-> tried]
    ELSE SniffBreak(read, k, Attempt(read[SEPARATORS[k]], df), tried)

Sniff(read) == SniffLoop(read, 1, EmptyFrame, <<>>)

\* lines 51-54: what read_csv gives for file_dir
FileDir(e) == IF e.list_files = <<>> THEN NoFile ELSE e.fs[e.list_files[1]]

(***************************************************************************)
(* SpectroReader.preprocess_proteins from the table on                     *)
(* (SpectroReader.py:98-114).                                              *)
(***************************************************************************)
ISIDENTIFIED == <<"I", "s", "I", "d", "e", "n", "t", "i", "f", "i", "e", "d">>
INTENSITY == <<"I", "n", "t", "e", "n", "s", "i", "t", "y", " ">>

\* the characters of the tables by code point
CodeOrder ==
    <<"\t", " ", ",", ".", "0", "1", "2", "3", "4", "5", "6", "7", "8", "9", ";",
      "A", "B", "C", "D", "E", "F", "G", "H", "I", "J", "K", "L", "M", "N", "O",
      "P", "Q", "R", "S", "T", "U", "V", "W", "X", "Y", "Z", "[", "]", "_",
      "a", "b", "c", "d", "e", "f", "g", "h", "i", "j", "k", "l", "m", "n", "o",
      "p", "q", "r", "s", "t", "u", "v", "w", "x", "y", "z">>
Ord(c) == CHOOSE i \in DOMAIN CodeOrder : CodeOrder[i] = c

RECURSIVE StrLess(_, _)
\* a < b of two str
StrLess(a, b) ==
    IF b = <<>> THEN FALSE
    ELSE IF a = <<>> THEN TRUE
    ELSE IF Head(a) = Head(b) THEN StrLess(Tail(a), Tail(b))
    ELSE Ord(Head(a)) < Ord(Head(b))

RECURSIVE Insert(_, _)
Insert(q, x) ==
    IF q = <<>> THEN <<x>>
    ELSE IF StrLess(x, Head(q)) THEN <<x>> \o q
    ELSE <<Head(q)>> \o Insert(Tail(q), x)
RECURSIVE Sorted(_)
\* sorted(q) of a list of str
Sorted(q) == IF q = <<>> THEN <<>> ELSE Insert(Sorted(SubSeq(q, 1, Len(q) - 1)), q[Len(q)])

\* line 102, keyf
KeyF(text) == Split(text, ".")[1]

RECURSIVE GroupBy(_, _)
\* groupby(q, key=keyf): the runs of equal keys; acc holds the groups so far
GroupBy(q, acc) ==
    IF q = <<>> THEN acc
    ELSE IF acc # <<>> /\ KeyF(acc[Len(acc)][1]) = KeyF(Head(q))
    THEN GroupBy(Tail(q), [acc EXCEPT ![Len(acc)] = Append(@, Head(q))])
    ELSE GroupBy(Tail(q), Append(acc, <<Head(q)>>))

\* re.search(".IsIdentified", col)
MatchesIsIdentified(col) ==
    \E i \in 2..(Len(col) - Len(ISIDENTIFIED) + 1) :
        SubSeq(col, i, i + Len(ISIDENTIFIED) - 1) = ISIDENTIFIED

\* lines 99-103
GroupedCols(df) ==
    LET quant_cols == SelectSeq(df.columns, LAMBDA col : Contains(col, DOTQUANTITY))
        filt_cols == SelectSeq(df.columns,
                               LAMBDA col : Contains(col, <<".">> \o ISIDENTIFIED))
    IN  GroupBy(Sorted(quant_cols \o filt_cols), <<>>)

\* line 105 for one group: False in the first column of the group wherever
\* the second one is missing
SetFalseWhereNa(df, g) ==
    LET c0 == ColPos(df, g[1])
        c1 == ColPos(df, g[2])
    IN  [df EXCEPT !.rows =
            [r \in DOMAIN df.rows |->
                IF df.rows[r][c1].t = "nan"
                THEN [df.rows[r] EXCEPT ![c0] = BoolCell(FALSE)]
                ELSE df.rows[r]]]

RECURSIVE GroupLoop(_, _, _)
\* lines 104-105 from the i-th group on
GroupLoop(df, grouped_cols, i) ==
    IF i > Len(grouped_cols) THEN [exc |-> "none", df |-> df]
    ELSE IF Len(grouped_cols[i]) < 2 THEN [exc |-> "IndexError", df |-> df]
    ELSE GroupLoop(SetFalseWhereNa(df, grouped_cols[i]), grouped_cols, i + 1)

\* the columns of df at the positions keep, in that order
Take(df, keep) ==
    Frame([k \in DOMAIN keep |-> df.columns[keep[k]]],
          [r \in DOMAIN df.rows |-> [k \in DOMAIN keep |-> df.rows[r][keep[k]]]])

\* df.filter(regex=(".IsIdentified"))
FilterIsIdentified(df) ==
    Take(df, SelectSeq(Positions(Width(df)),
                       LAMBDA c : MatchesIsIdentified(df.columns[c])))

\* df.filter(regex=(".Quantity"))
FilterQuantityCols(df) ==
    Take(df, SelectSeq(Positions(Width(df)),
                       LAMBDA c : MatchesQuantity(df.columns[c])))

\* line 107: replace({"Filtered": False, "True": True, "False": False})
ReplaceFlag(x) ==
    IF x = TextCell(FILTERED) \/ x = TextCell(FALSESTR) THEN BoolCell(FALSE)
    ELSE IF x = TextCell(TRUESTR) THEN BoolCell(TRUE)
    ELSE x

\* line 109: replace({"Filtered": float(0)}).fillna(0)
ReplaceQuantity(x) ==
    IF x = TextCell(FILTERED) \/ x.t = "nan" THEN NumCell(ZERO) ELSE x

\* line 107
MissingMap(df) ==
    LET f == FilterIsIdentified(df)
    IN  [f EXCEPT !.rows = [r \in DOMAIN f.rows |->
                               [c \in DOMAIN f.rows[r] |-> ReplaceFlag(f.rows[r][c])]]]

\* lines 108-109
Quantities(df) ==
    LET f == FilterQuantityCols(df)
    IN  [f EXCEPT !.rows = [r \in DOMAIN f.rows |->
                               [c \in DOMAIN f.rows[r] |-> ReplaceQuantity(f.rows[r][c])]]]

\* one cell of df.values * missing_map.values: a float times a bool is the
\* float or 0.0, a str times a bool is the str or the empty str
CellMul(q, m) ==
    IF m.t = "bool"
    THEN IF m = BoolCell(TRUE) THEN q
         ELSE IF q.t = "str" THEN TextCell(<<>>) ELSE NumCell(ZERO)
    ELSE IF m.t = "nan" /\ q.t = "num" THEN NaNCell
    ELSE [t |-> "TypeError", s |-> <<>>]

\* line 114: the product of two arrays of the same shape, or of an array
\* and a one-column array of as many rows; ValueError otherwise
Masked(df, missing_map) ==
    IF Width(missing_map) # Width(df) /\ Width(missing_map) # 1
    THEN [exc |-> "ValueError", df |-> df]
    ELSE LET m(r, c) == IF Width(missing_map) = Width(df)
                        THEN missing_map.rows[r][c] ELSE missing_map.rows[r][1]
             p == [df EXCEPT !.rows =
                     [r \in DOMAIN df.rows |->
                         [c \in DOMAIN df.columns |-> CellMul(df.rows[r][c], m(r, c))]]]
         IN  IF \E r \in DOMAIN p.rows : \E c \in DOMAIN p.columns :
                    p.rows[r][c].t = "TypeError"
             THEN [exc |-> "TypeError", df |-> df]
             ELSE [exc |-> "none", df |-> p]

\* the identifier of a cell of the index column
Identifier(x) == IF x.t = "nan" THEN NaN ELSE x.s

\* lines 98-114: the columns and the values of the matrix, and use_index
Matrix(df, index_col, intensity_column_names, use_imputed) ==
    IF ~HasCol(df, index_col) THEN [exc |-> "KeyError", df |-> df, use_index |-> <<>>]
    ELSE LET use_index == [r \in DOMAIN df.rows |-> Identifier(Column(df, index_col)[r])]
             g == GroupLoop(df, GroupedCols(df), 1)
         IN  IF g.exc # "none" THEN [exc |-> g.exc, df |-> df, use_index |-> use_index]
             ELSE LET missing_map == MissingMap(g.df)
                      q == Quantities(g.df)
                      use_cols == [k \in DOMAIN intensity_column_names |->
                                      INTENSITY \o intensity_column_names[k]]
                  IN  IF Len(use_cols) # Width(q)
                      THEN [exc |-> "ValueError", df |-> df, use_index |-> use_index]
                      ELSE LET named == [q EXCEPT !.columns = use_cols]
                               m == IF use_imputed THEN [exc |-> "none", df |-> named]
                                    ELSE Masked(named, missing_map)
                           IN  [exc |-> m.exc, df |-> m.df, use_index |-> use_index]

(***************************************************************************)
(* Inputs.                                                                 *)
(***************************************************************************)
A == <<"a">>
B == <<"b">>
AB == <<"a", "b">>
BA == <<"b", "a">>
BREP == <<"b", "r", "e", "p">>
\* the two leading parts of a long identifier (dropped by line 176)
D == <<"d">>
F == <<"f">>

\* identifiers of quantity columns, as lists of "_"-separated parts
IdParts ==
    { <<A>>,
      <<A, B>>, <<A, REP>>,
      <<A, B, REP>>, <<AB, A, B>>, <<A, B, BREP>>,
      <<D, F, A, B>>,
      <<D, F, A, B, REP>>, <<D, F, AB, A, B>>, <<D, F, A, B, BREP>>,
      <<D, F, A, B, B, REP>>, <<D, F, A, B, A, B>>,
      <<D, F, A, B, A, B, REP>>, <<D, F, B, A, A, B, REP>>,
      <<D, F, A, B, A, B, A, B>> }

\* the header of the quantity column of an identifier
Header(parts) ==
    <<"[", "1", "]", " ">> \o Join("_", parts) \o <<".", "P", "G", ".">> \o QUANTITY

GenesCol == <<"P", "G", ".", "G", "e", "n", "e", "s">>

Headers == {Header(p) : p \in IdParts} \cup {GenesCol}

\* sequences of at most n elements of S
SeqsUpTo(S, n) == UNION {[1..k -> S] : k \in 0..n}
\* read_csv renames repeated headers, so the columns of a table differ
Distinct(q) == \A i, j \in DOMAIN q : i # j => q[i] # q[j]

\* the reader configuration handed to the constructor: none yet, or the
\* one an earlier run stored
NoConfig == <<>>
PriorConfig ==
    [all_replicates |-> <<Join("_", <<B, REP>>)>>,
     analysis_design |-> Dict(<<<<B, Dict(<<<<REP, Str(Join("_", <<B, REP>>))>>>>)>>>>),
     levels |-> 2,
     level_names |-> <<0, 1>>]

\* names handed to get_analysis_design
NameParts ==
    { <<A>>, <<B>>,
      <<A, A>>, <<A, B>>, <<B, A>>,
      <<A, A, A>>, <<A, A, B>>, <<A, B, A>>, <<B, A, B>> }
Names == {Join("_", p) : p \in NameParts}

\* row identifiers of the index column
C == <<"c">>
Identifiers == {A, B, C, <<"a", "_", "1">>, NaN}

\* the data file of the directory of a reader
DataFile == <<"f", ".", "c", "s", "v">>

\* what read_csv gives for a comma-separated file under another
\* separator: one column, every line unsplit
Unsplit(table, sep) ==
    Frame(<<Join(sep, table.columns)>>,
          [r \in DOMAIN table.rows |->
              <<TextCell(Join(sep, [c \in DOMAIN table.rows[r] |-> table.rows[r][c].s]))>>])

\* the content of a comma-separated file that holds the table: a file with
\* no column is empty (EmptyDataError), a file with one column reads the
\* same under every separator
Csv(table) ==
    [s \in Range(SEPARATORS) |->
        IF Width(table) = 0 THEN ParseRaise("EmptyDataError")
        ELSE IF s = "," \/ Width(table) = 1 THEN ParseOk(table)
        ELSE ParseOk(Unsplit(table, ","))]

\* a directory that holds the one file
OneFile(content) == [f \in {DataFile} |-> content]

\* the table of an index column
IdCell(ind) == IF ind = NaN THEN NaNCell ELSE TextCell(ind)
IndexTable(q) == Frame(<<GenesCol>>, [r \in DOMAIN q |-> <<IdCell(q[r])>>])

\* the header of the IsIdentified column of an identifier
FlagHeader(parts) ==
    <<"[", "1", "]", " ">> \o Join("_", parts) \o <<".", "P", "G", ".">> \o ISIDENTIFIED

\* the most value cells (rows times samples) of a table of quantities
MaxCells == 2
\* the most rows of a table handed to preprocess_df
MaxRows == 2

SampleIds == <<<<A, B>>, <<A, REP>>, <<B, A>>, <<B, REP>>>>
RowIds == <<A, B, C, D>>
P == <<"p">>

SEVEN == <<"7">>
ONECOMMAFIVE == <<"1", ",", "5">>
QuantityCells == {NumCell(SEVEN), NaNCell, TextCell(FILTERED), TextCell(ONECOMMAFIVE)}
FlagCells == {BoolCell(TRUE), BoolCell(FALSE),
              TextCell(TRUESTR), TextCell(FALSESTR), TextCell(FILTERED)}

\* read_csv gives a column one type: floats (nan for an empty field), or
\* str for every field as soon as one field is no number
QuantityCols(m) ==
    {q \in [1..m -> QuantityCells] :
        ~((\E i \in 1..m : q[i].t = "num") /\ (\E j \in 1..m : q[j].t = "str"))}
\* bool when every field is True or False, str otherwise
FlagCols(m) ==
    {q \in [1..m -> FlagCells] :
        \/ \A i \in 1..m : q[i].t = "bool"
        \/ /\ \A i \in 1..m : q[i].t = "str"
           /\ \E i \in 1..m : q[i] = TextCell(FILTERED)}

\* a table of m rows and n samples: PG.ProteinGroups first or not, then
\* PG.Genes, then the Quantity and the IsIdentified column of every sample
QuantityTable(m, n, with_groups, qcols, fcols) ==
    Frame((IF with_groups THEN <<PROTEINGROUPS>> ELSE <<>>) \o <<GenesCol>>
            \o [k \in 1..(2 * n) |->
                   IF k % 2 = 1 THEN Header(SampleIds[(k + 1) \div 2])
                   ELSE FlagHeader(SampleIds[k \div 2])],
          [r \in 1..m |->
              (IF with_groups THEN <<TextCell(P)>> ELSE <<>>) \o <<TextCell(RowIds[r])>>
                \o [k \in 1..(2 * n) |->
                       IF k % 2 = 1 THEN qcols[(k + 1) \div 2][r]
                       ELSE fcols[k \div 2][r]]])

QuantityTables ==
    UNION {UNION {{QuantityTable(m, n, g, qcols, fcols) :
                      g \in BOOLEAN,
                      qcols \in [1..n -> QuantityCols(m)],
                      fcols \in [1..n -> FlagCols(m)]} :
                  n \in {k \in 1..MaxCells : m * k <= MaxCells}} :
           m \in 1..MaxCells}

\* the tables handed to preprocess_df: PG.ProteinGroups, PG.Genes and the
\* two columns of one sample
Q == <<"q">>
R == <<"r">>
GroupCells == {TextCell(P), TextCell(Join(";", <<P, Q>>)), TextCell(Join(";", <<P, Q, R>>))}
GeneCells == {TextCell(A), TextCell(Join(";", <<A, B>>))}
GroupTables ==
    UNION {{Frame(<<PROTEINGROUPS, GenesCol, FlagHeader(SampleIds[1]), Header(SampleIds[1])>>,
                  [r \in 1..m |-> <<groups[r], genes[r], BoolCell(TRUE), quantity[r]>>]) :
               groups \in [1..m -> GroupCells],
               genes \in [1..m -> GeneCells],
               quantity \in QuantityCols(m)} :
           m \in 0..MaxRows}

\* what read_csv may give for a file under one separator
OneColumn == Frame(<<GenesCol>>, <<>>)
TwoColumns == Frame(<<GenesCol, Header(<<A, B>>)>>, <<>>)
ThreeColumns == Frame(<<GenesCol, Header(<<A, REP>>), Header(<<B, A>>)>>, <<>>)
Contents ==
    [Range(SEPARATORS) ->
        {ParseRaise("ParserError"), ParseOk(OneColumn), ParseOk(TwoColumns),
         ParseOk(ThreeColumns)}]

\* names of files
FXLS == <<"f", ".", "x", "l", "s">>
GTSV == <<"g", ".", "t", "s", "v">>
GXLS == <<"g", ".", "x", "l", "s">>
NOTES == <<"n", "o", "t", "e", "s", ".", "t", "x", "t">>
FileNames == {FXLS, DataFile, GXLS, GTSV, NOTES}
\* the content of a file that tells it from the others
ContentOf(file) == Csv(Frame(<<file>>, <<>>))

\* the most files of a directory handed to ext_change, and the most calls
MaxFiles == 3
MaxCalls == 3

\* the directories of the sniffing: none, an empty one, one file of any
\* content under any extension, two data files
SniffDirs ==
    {<<>>}
      \cup {[f \in {n} |-> c] : n \in {DataFile, FXLS, GTSV, NOTES}, c \in Contents}
      \cup {[f \in {DataFile, GTSV} |-> IF f = DataFile THEN c ELSE Csv(ThreeColumns)] :
               c \in Contents}

\* reader configurations that hold some of the keys, a key the reader
\* does not know, or keys that are empty
INDEXCOL == "index_col"
OnlyReplicates == [all_replicates |-> PriorConfig.all_replicates]
OnlyDesign == [analysis_design |-> PriorConfig.analysis_design]
OnlyLevels == [levels |-> 3, level_names |-> <<0, 1, 2>>]
PriorWithOther ==
    [k \in DOMAIN PriorConfig \cup {INDEXCOL} |->
        IF k = INDEXCOL THEN GenesCol ELSE PriorConfig[k]]
EmptyKeys ==
    [all_replicates |-> <<>>, analysis_design |-> Dict(<<>>), levels |-> 0,
     level_names |-> <<>>, index_col |-> GenesCol]
ReaderConfigs ==
    {NoConfig, PriorConfig, PriorWithOther, OnlyReplicates, OnlyDesign, OnlyLevels,
     EmptyKeys}

(***************************************************************************)
(* SpectroReader.__init__ (SpectroReader.py:45-76), the whole call.        *)
(* BaseReader.__init__ stores start_dir and reader_config.                 *)
(***************************************************************************)
\* the constructor on the directory (dir_exists, dir), which os.listdir
\* lists as listing, with the configuration config: the exception raised,
\* the directory left, the locals and the attributes of the reader.
\* os.listdir raises FileNotFoundError for a directory that does not
\* exist (line 52), which line 68 turns into MissingFilesException
\* lines 65-76, e what ext_change gave, s the sniffing and r
\* format_spektrocols
Formatting(e, s, r, config) ==
    [exc |-> IF r.exc = "FileNotFoundError" THEN "MissingFilesException" ELSE r.exc,
     names |-> r.names, fs |-> e.fs, list_files |-> e.list_files,
     tried |-> s.tried, df |-> s.df,
     processed_cols |-> r.processed_cols,
     analysis_design |-> IF r.exc = "none" THEN r.analysis_design ELSE NoneVal,
     intensity_column_names |-> IF r.exc = "none" THEN r.processed_cols ELSE <<>>,
     reader_config |-> IF r.exc = "none"
                       THEN StoreConfig(config, r.processed_cols, r.analysis_design)
                       ELSE config]

\* lines 65-66
Filtering(e, s, config) ==
    Formatting(e, s, format_spektrocols(FilterQuantity(s.df.columns)), config)

\* lines 50-64
Sniffing(e, config) == Filtering(e, Sniff(FileDir(e)), config)

Construct(dir_exists, dir, listing, config) ==
    IF ~dir_exists
    THEN [exc |-> "MissingFilesException", names |-> {}, fs |-> dir,
          list_files |-> <<>>, tried |-> <<>>, df |-> EmptyFrame,
          processed_cols |-> <<>>, analysis_design |-> NoneVal,
          intensity_column_names |-> <<>>, reader_config |-> config]
    ELSE Sniffing(ext_change(dir, listing), config)

(***************************************************************************)
(* MSPInitializer.update_config_file and read_data                         *)
(* (build/lib/mspypeline/core/MSPInitializer.py:205-240).                  *)
(***************************************************************************)
YML == "config.yml"
YMLTMP == "config_tmp.yml"
SPECTRO == "spectroReader"
MQ == "mqreader"
PATHWAYS == "pathways"
GOTERMS == "go_terms"

\* lines 208-218: the files of the config directory after the call
update_config_file(configs_now, files) ==
    LET written == [f \in DOMAIN files \cup {YMLTMP} |->
                       IF f = YMLTMP THEN configs_now ELSE files[f]]
        removed == [f \in DOMAIN written \ {YML} |-> written[f]]
    IN  [f \in (DOMAIN removed \ {YMLTMP}) \cup {YML} |->
            IF f = YML THEN removed[YMLTMP] ELSE removed[f]]

\* self.configs.get(Reader.name, {})
ConfigOf(cfgs, name) == IF name \in DOMAIN cfgs THEN cfgs[name] ELSE NoConfig

\* the constructor of the reader of MaxQuant files: it raises
\* MissingFilesException, raises another exception, or completes and
\* stores the four keys in its configuration
MQCols == <<Join("_", <<A, B>>)>>
MQDesign == Dict(<<<<A, Dict(<<<<B, Str(Join("_", <<A, B>>))>>>>)>>>>)
MQConstruct(outcome, config) ==
    [exc |-> outcome,
     reader_config |-> IF outcome = "none" THEN StoreConfig(config, MQCols, MQDesign)
                       ELSE config]
MQOutcomes == {"none", "MissingFilesException", "KeyError"}

\* ReaderStep that lets MissingFilesException end read_data
ReaderStepFatal(st, name, c) ==
    IF c.exc = "none"
    THEN [st EXCEPT !.configs = Put(st.configs, name, c.reader_config),
                    !.reader_data = @ \cup {name},
                    !.steps = Append(@, name)]
    ELSE [st EXCEPT !.steps = Append(@, name), !.exc = c.exc]

\* lines 229-235 for one reader, c the outcome of its constructor
ReaderStep(st, name, c) ==
    IF c.exc = "none"
    THEN [st EXCEPT !.configs = Put(st.configs, name, c.reader_config),
                    !.reader_data = @ \cup {name},
                    !.steps = Append(@, name)]
    ELSE IF c.exc = "MissingFilesException"
    THEN [st EXCEPT !.steps = Append(@, name), !.skipped = @ \cup {name}]
    ELSE [st EXCEPT !.steps = Append(@, name), !.exc = c.exc]

\* lines 229-235 for the SpectroReader, which has renamed the .xls files
SpectroStep(st, c) == [ReaderStep(st, SPECTRO, c) EXCEPT !.fs = c.fs]

RECURSIVE ReaderLoop(_, _, _, _, _, _)
\* the loop of lines 227-235 from the k-th reader on
ReaderLoop(st, readers, k, dir_exists, listing, mq) ==
    IF k > Len(readers) \/ st.exc # "none" THEN st
    ELSE IF readers[k] = SPECTRO
    THEN ReaderLoop(SpectroStep(st, Construct(dir_exists, st.fs, listing,
                                              ConfigOf(st.configs, SPECTRO))),
                    readers, k + 1, dir_exists, listing, mq)
    ELSE ReaderLoop(ReaderStep(st, MQ, MQConstruct(mq, ConfigOf(st.configs, MQ))),
                    readers, k + 1, dir_exists, listing, mq)

\* lines 180-190, init_interest_from_txt: every list named under pathways
\* and go_terms is read; a list that is in neither directory raises
\* FileNotFoundError (line 197)
InitInterest(st, found) ==
    IF (st.configs[PATHWAYS] # <<>> \/ st.configs[GOTERMS] # <<>>) /\ ~found
    THEN [st EXCEPT !.steps = Append(@, "init_interest_from_txt"),
                    !.exc = "FileNotFoundError"]
    ELSE [st EXCEPT !.steps = Append(@, "init_interest_from_txt"),
                    !.interest = "loaded"]

\* line 240: open() raises FileNotFoundError when there is no config
\* directory
Persist(st) ==
    IF ~st.has_config_dir
    THEN [st EXCEPT !.steps = Append(@, "update_config_file"),
                    !.exc = "FileNotFoundError"]
    ELSE [st EXCEPT !.steps = Append(@, "update_config_file"),
                    !.config_files = update_config_file(st.configs, st.config_files)]

\* line 240, st what line 239 left
Persisting(st) == IF st.exc # "none" THEN st ELSE Persist(st)

\* lines 237-240, st what the loop left
Loading(st, found) ==
    IF st.exc # "none" THEN st ELSE Persisting(InitInterest(st, found))

read_data(st, readers, dir_exists, listing, mq, found) ==
    Loading(ReaderLoop(st, readers, 1, dir_exists, listing, mq), found)

\* run configurations: the lists of interest, and the entries of the
\* readers that an earlier run stored
PathwayLists == {<<>>, <<NOTES>>}
RunConfigs ==
    UNION {{[k \in {PATHWAYS, GOTERMS} \cup present |->
                IF k = PATHWAYS THEN pw
                ELSE IF k = GOTERMS THEN <<>>
                ELSE IF k = SPECTRO THEN sc
                ELSE OnlyReplicates] :
              pw \in PathwayLists, present \in SUBSET {SPECTRO, MQ}} :
           sc \in {PriorWithOther, EmptyKeys}}
ReaderOrders == {<<MQ, SPECTRO>>, <<SPECTRO, MQ>>}
\* directories of read_data
BadHeader == <<"[", "1", "]", " ", "a", ".", "P", "G", ".">> \o QUANTITY
RunDirs ==
    {<<>>, OneFile(Csv(TwoColumns)), [f \in {FXLS} |-> Csv(ThreeColumns)],
     OneFile(Csv(Frame(<<BadHeader>>, <<>>)))}

(***************************************************************************)
(* DataDict (helpers/Utils.py:234-265).  The data source is what its       *)
(* method preprocess_<key> does for every key; a load that returns gives a *)
(* new object every time, told apart by the number of the load.            *)
(***************************************************************************)
\* getattr(self.data_source, f"preprocess_{key}")(), the n-th load of key
Load(source, key, n) ==
    IF source[key] = "returns" THEN [exc |-> "none", val |-> <<key, n>>]
    ELSE IF source[key] = "no method" THEN [exc |-> "AttributeError", val |-> <<>>]
    ELSE [exc |-> source[key], val |-> <<>>]

\* self[key] = data
Stored(store, key, data) ==
    [k \in DOMAIN store \cup {key} |-> IF k = key THEN data ELSE store[k]]

\* Missing returning the data without storing it
MissingUnstored(dd, key) ==
    LET l == Load(dd.source, key, dd.loads[key] + 1)
        called == [dd EXCEPT !.loads[key] = @ + (IF dd.source[key] = "no method" THEN 0 ELSE 1),
                             !.key = key, !.ret = <<>>]
    IN  IF l.exc = "none" THEN [exc |-> "none", dd |-> [called EXCEPT !.ret = l.val]]
        ELSE IF l.exc \in {"FileNotFoundError", "AttributeError"}
        THEN [exc |-> "KeyError", dd |-> called]
        ELSE [exc |-> l.exc, dd |-> called]

\* lines 257-265, __missing__(key): what the call raises and returns (ret,
\* empty when it raises), and the DataDict after it
Missing(dd, key) ==
    LET l == Load(dd.source, key, dd.loads[key] + 1)
        called == [dd EXCEPT !.loads[key] = @ + (IF dd.source[key] = "no method" THEN 0 ELSE 1),
                             !.key = key, !.ret = <<>>]
    IN  IF l.exc = "none"
        THEN [exc |-> "none",
              dd |-> [called EXCEPT !.store = Stored(dd.store, key, l.val), !.ret = l.val]]
        ELSE IF l.exc \in {"FileNotFoundError", "AttributeError"}
        THEN [exc |-> "KeyError", dd |-> called]
        ELSE [exc |-> l.exc, dd |-> called]

\* data_dict[key]: dict.__getitem__ calls __missing__ for a key that is
\* not stored
Subscript(dd, key) ==
    IF key \in DOMAIN dd.store
    THEN [exc |-> "none", dd |-> [dd EXCEPT !.key = key, !.ret = dd.store[key]]]
    ELSE Missing(dd, key)

\* the keys looked up and what the method of the data source does
DataKeys == {"proteins", "peptides"}
Sources == {"returns", "FileNotFoundError", "no method", "AttributeError", "ValueError"}
\* the most lookups of one run
MaxLookups == 3

(***************************************************************************)
(* MSPInitializer.file_path_yaml, the setter                               *)
(* (build/lib/mspypeline/core/MSPInitializer.py:133-153).  The path stored *)
(* is the default yml of the package, config/config.yml of start_dir, or   *)
(* the path given; os.path.normpath leaves the paths of the model as they  *)
(* are.                                                                    *)
(***************************************************************************)
\* str.lower() of one character and of a str
LowerChar(c) ==
    IF Ord(c) >= Ord("A") /\ Ord(c) <= Ord("Z")
    THEN CodeOrder[Ord(c) + (Ord("a") - Ord("A"))]
    ELSE c
Lower(s) == [i \in DOMAIN s |-> LowerChar(s[i])]

DEFAULT == <<"d", "e", "f", "a", "u", "l", "t">>
FILE == <<"f", "i", "l", "e">>
DOTYML == <<".", "y", "m", "l">>
DOTYAML == <<".", "y", "a", "m", "l">>

\* lines 161-170, has_yml_file
has_yml_file(st, dir_exists) ==
    dir_exists /\ st.has_config_dir /\ YML \in DOMAIN st.config_files

\* the paths _file_path_yaml may hold: nothing yet, the value of
\* get_default_yml_path (lines 172-175), config.yml of start_dir, a path
NoPath == [kind |-> "None", path |-> <<>>]
DefaultYmlPath == [kind |-> "default", path |-> <<>>]
ConfigYmlPath == [kind |-> "config", path |-> <<>>]
GivenPath(p) == [kind |-> "given", path |-> p]

\* the configuration of the default yml file of the package
DefaultConfigs == [k \in {PATHWAYS, GOTERMS} |-> <<>>]
\* a yml file that yaml.load cannot read
Malformed == [malformed |-> TRUE]

\* lines 150-152: open(self.file_path_yaml), what the file holds
YamlFile(st, path) ==
    IF path = DefaultYmlPath THEN [exc |-> "none", content |-> DefaultConfigs]
    ELSE IF path = ConfigYmlPath
    THEN [exc |-> "none", content |-> st.config_files[YML]]
    ELSE IF path.path \in DOMAIN st.yml_files
    THEN [exc |-> "none", content |-> st.yml_files[path.path]]
    ELSE [exc |-> "FileNotFoundError", content |-> Malformed]

\* lines 150-152 with _file_path_yaml set: the configs are loaded, or
\* open or yaml.load raises and leaves them
LoadYaml(st) ==
    LET f == YamlFile(st, st.file_path_yaml)
    IN  IF f.exc # "none" THEN [st EXCEPT !.exc = f.exc]
        ELSE IF f.content = Malformed THEN [st EXCEPT !.exc = "ScannerError"]
        ELSE [st EXCEPT !.configs = f.content]

\* SetYamlPath taking every value that is no keyword for a path
SetYamlPathAny(st, file_path_yml, dir_exists) ==
    IF Lower(file_path_yml) = DEFAULT THEN [st EXCEPT !.file_path_yaml = DefaultYmlPath]
    ELSE IF Lower(file_path_yml) = FILE
    THEN [st EXCEPT !.file_path_yaml =
             IF has_yml_file(st, dir_exists) THEN ConfigYmlPath ELSE DefaultYmlPath]
    ELSE [st EXCEPT !.file_path_yaml = GivenPath(file_path_yml)]

\* lines 135-146: _file_path_yaml after the tests of the value, or ValueError
SetYamlPath(st, file_path_yml, dir_exists) ==
    IF Lower(file_path_yml) = DEFAULT THEN [st EXCEPT !.file_path_yaml = DefaultYmlPath]
    ELSE IF Lower(file_path_yml) = FILE
    THEN [st EXCEPT !.file_path_yaml =
             IF has_yml_file(st, dir_exists) THEN ConfigYmlPath ELSE DefaultYmlPath]
    ELSE IF EndsWith(Lower(file_path_yml), DOTYML) \/ EndsWith(Lower(file_path_yml), DOTYAML)
    THEN [st EXCEPT !.file_path_yaml = GivenPath(file_path_yml)]
    ELSE [st EXCEPT !.exc = "ValueError"]

\* lines 133-153, the setter
file_path_yaml(st, file_path_yml, dir_exists) ==
    LET s == SetYamlPath(st, file_path_yml, dir_exists)
    IN  IF s.exc # "none" THEN s ELSE LoadYaml(s)

\* the values assigned
YamlValues ==
    {DEFAULT, <<"D", "e", "f", "a", "u", "l", "t">>, FILE, <<"F", "I", "L", "E">>,
     <<"a", ".", "y", "m", "l">>, <<"a", ".", "Y", "A", "M", "L">>,
     <<"b", ".", "y", "a", "m", "l">>, <<"a", ".", "t", "x", "t">>,
     <<"y", "m", "l">>, <<>>}
\* the configuration a yml file of the user holds
UserConfigs == [k \in {PATHWAYS, GOTERMS} |-> IF k = PATHWAYS THEN <<NOTES>> ELSE <<>>]
\* the yml files outside the config directory
YamlFiles ==
    {<<>>,
     [p \in {<<"a", ".", "y", "m", "l">>} |-> UserConfigs],
     [p \in {<<"a", ".", "y", "m", "l">>, <<"b", ".", "y", "a", "m", "l">>} |->
         IF p = <<"a", ".", "y", "m", "l">> THEN Malformed ELSE UserConfigs]}

(***************************************************************************)
(* MSPInitializer.update_config_file statement by statement                *)
(* (build/lib/mspypeline/core/MSPInitializer.py:205-218): the files of the *)
(* config directory after each statement.                                  *)
(***************************************************************************)
\* what a file holds between open(..., "w") and the end of yaml.dump
Partial == [partial |-> TRUE]

\* a file written, a file removed
Written(files, name, content) ==
    [f \in DOMAIN files \cup {name} |-> IF f = name THEN content ELSE files[f]]
Removed(files, name) == [f \in DOMAIN files \ {name} |-> files[f]]

\* OpenTmp writing to config.yml itself
OpenInPlace(files) == Written(files, YML, Partial)

\* line 209: open(yml_file_loc_tmp, "w") makes the file or empties it
OpenTmp(files) == Written(files, YMLTMP, Partial)
\* line 210: self.yaml.dump(self.configs, outfile), and the file is closed
DumpTmp(files, configs_now) == Written(files, YMLTMP, configs_now)
\* lines 213-215
RemoveYml(files) == IF YML \in DOMAIN files THEN Removed(files, YML) ELSE files
\* line 218: os.rename(yml_file_loc_tmp, yml_file_loc)
RenameTmp(files) == Removed(Written(files, YML, files[YMLTMP]), YMLTMP)

\* the files of the config directory before the call
ConfigDirs ==
    {<<>>,
     [f \in {YML} |-> DefaultConfigs],
     [f \in {YMLTMP} |-> DefaultConfigs],
     [f \in {YML, YMLTMP} |-> IF f = YML THEN DefaultConfigs ELSE Partial],
     [f \in {YML, "sample_mapping.txt"} |-> DefaultConfigs]}

(***************************************************************************)
(* MSPGUI: the Start and the Create Report button, their worker threads    *)
(* and the callbacks that poll them (core/MSPypeline.py:533-627).  The     *)
(* press with number p opens the box p and starts the thread p.  The work  *)
(* of a thread (update_button, create_results or create_report) is what it *)
(* ends with: None or the type of the exception.                           *)
(***************************************************************************)
\* the most presses of the two buttons in one run
MaxPresses == 2
\* what start_ops and report_ops may store in self.err
Outcomes == {"None", "KeyError", "NotImplementedError", "ValueError"}

\* lines 534, 580 and 555-559, 601-605: the press opens a WarningBox, makes
\* it self.warningbox, starts a thread, makes it the global of its kind
\* and schedules the callback that polls
Pressed(g, kind) ==
    LET p == Len(g.threads) + 1
    IN  [g EXCEPT !.boxes = Append(@, "open"),
                  !.warningbox = p,
                  !.threads = Append(@, [kind |-> kind, alive |-> TRUE]),
                  !.start_thread = IF kind = "start" THEN p ELSE @,
                  !.report_thread = IF kind = "report" THEN p ELSE @,
                  !.pending = @ \cup {p}]

\* lines 543-552, 588-597: the thread stores its outcome in self.err and ends
Ended(g, t, outcome) ==
    [g EXCEPT !.threads[t].alive = FALSE,
              !.err = outcome,
              !.outcome = Append(@, <<t, outcome>>)]

\* lines 562, 608: the thread the callback of a press looks at is the
\* global of its kind
Polled(g, p) ==
    IF g.threads[p].kind = "start" THEN g.start_thread ELSE g.report_thread

\* lines 620-627, popup_window in the callback of the press p: the
\* progress bar of self.warningbox is stopped, the box destroyed and the
\* message box shown with self.err; the progress bar of a box that is
\* destroyed raises TclError and the callback ends there
Popup(g, p) ==
    IF g.boxes[g.warningbox] = "destroyed"
    THEN [g EXCEPT !.pending = @ \ {p}, !.tcl_errors = Append(@, p)]
    ELSE [g EXCEPT !.boxes[g.warningbox] = "destroyed",
                   !.popups = Append(@, [press |-> p, err |-> g.err, box |-> g.warningbox]),
                   !.pending = @ \ {p}]

\* lines 561-576, 607-618: the callback of the press p
Checked(g, p) ==
    IF g.threads[Polled(g, p)].alive THEN g       \* self.after(20, ...)
    ELSE Popup(g, p)

(***************************************************************************)
(* MSPGUI: the lists of sample names (core/MSPypeline.py update_listboxes  *)
(* 424-456, customize_volcano 676-763, customize_timecourse 801-883).      *)
(* config/sample_mapping.txt is the sequence of its lines, each with its   *)
(* line end; a listbox is the sequence of its entries and the set of the   *)
(* selected positions, counted from 0.                                     *)
(***************************************************************************)
TAB == "\t"
NEWLINE == "\n"
NONE == <<"N", "o", "n", "e">>

\* op[:-1] and sample[:-1]
DropLast(s) == SubSeq(s, 1, Len(s) - 1)

\* lines 431-434, 701-703, 812-814: the loop over f.readlines() from the
\* line i on, acc the names taken so far; a line with no tab has no [1]
RECURSIVE MappingFrom(_, _, _)
MappingFrom(lines, i, acc) ==
    IF i > Len(lines) THEN [exc |-> "none", names |-> acc]
    ELSE IF Len(Split(lines[i], TAB)) < 2 THEN [exc |-> "IndexError", names |-> acc]
    ELSE MappingFrom(lines, i + 1, Append(acc, DropLast(Split(lines[i], TAB)[2])))

\* lines 429-435: open the file, next(f) skips the first line, then the loop
MappingNames(lines) ==
    IF lines = <<>> THEN [exc |-> "StopIteration", names |-> <<>>]
    ELSE MappingFrom(lines, 2, <<>>)

\* lines 437, 706, 817:
\* configs.get(self.selected_reader.name, {}).get("all_replicates", [])
ConfigNames(configs, reader) ==
    IF reader \in DOMAIN configs /\ "all_replicates" \in DOMAIN configs[reader]
    THEN configs[reader]["all_replicates"]
    ELSE <<>>

\* lines 428-438, 697-706, 808-817: try the file, except FileNotFoundError
\* the names of the selected reader in the configs
SampleNames(inp) ==
    IF inp.mapping.exists THEN MappingNames(inp.mapping.lines)
    ELSE [exc |-> "none", names |-> ConfigNames(inp.configs, inp.selected_reader)]

\* list.index(x), counted from 0
ListIndex(list, x) == (CHOOSE i \in DOMAIN list : list[i] = x /\ \A j \in 1..(i - 1) : list[j] # x) - 1

\* the entries of wanted before the first one that is not in list
RECURSIVE FoundPrefix(_, _, _)
FoundPrefix(wanted, list, i) ==
    IF i > Len(wanted) \/ wanted[i] \notin Range(list) THEN i - 1
    ELSE FoundPrefix(wanted, list, i + 1)

\* the positions selected by select_set(list.index(x)) for the first n of wanted
Selected(wanted, list, n) == {ListIndex(list, wanted[i]) : i \in 1..n}

\* lines 439-456: select the configured files found in the full list; a
\* ValueError of index is caught for each file
SelectFound(configured, list_full) ==
    {ListIndex(list_full, configured[i]) :
        i \in {j \in DOMAIN configured : configured[j] \in Range(list_full)}}

\* update_listboxes, lines 424-456
update_listboxes(inp) ==
    LET r == SampleNames(inp)
    IN  IF r.exc # "none"
        THEN [exc |-> r.exc, experiments_list |-> r.names,
              pathway_list |-> {}, go_term_list |-> {}]
        ELSE [exc |-> "none", experiments_list |-> r.names,
              pathway_list |-> SelectFound(inp.pathways, inp.list_full_pathways),
              go_term_list |-> SelectFound(inp.go_terms, inp.list_full_gos)]

\* line 720: del rep_split[-(max_level - selected_level):]
DelTail(rep_split, n) ==
    IF n > 0 THEN SubSeq(rep_split, 1, IF Len(rep_split) > n THEN Len(rep_split) - n ELSE 0)
    ELSE SubSeq(rep_split, 1, IF Len(rep_split) > -n THEN -n ELSE Len(rep_split))

\* lines 717-723: the loop over all_replicates from i on
RECURSIVE VolcanoSamples(_, _, _, _)
VolcanoSamples(all_replicates, i, n, all_sample) ==
    IF i > Len(all_replicates) THEN all_sample
    ELSE VolcanoSamples(all_replicates, i + 1, n,
            IF Join("_", DelTail(Split(all_replicates[i], "_"), n)) \in Range(all_sample)
            THEN all_sample
            ELSE Append(all_sample, Join("_", DelTail(Split(all_replicates[i], "_"), n))))

\* lines 747-763: the earlier selection of the plot settings; a sample that
\* is no longer listed selects the default entry as well
VolcanoSelection(s1, s2, all_sample) ==
    IF s1.default THEN [sample1_list |-> {0}, sample2_list |-> {0}]
    ELSE IF FoundPrefix(s1.samples, all_sample, 1) < Len(s1.samples)
    THEN [sample1_list |-> Selected(s1.samples, all_sample,
                                    FoundPrefix(s1.samples, all_sample, 1)) \cup {0},
          sample2_list |-> {0}]
    ELSE IF FoundPrefix(s2, all_sample, 1) < Len(s2)
    THEN [sample1_list |-> Selected(s1.samples, all_sample, Len(s1.samples)) \cup {0},
          sample2_list |-> Selected(s2, all_sample, FoundPrefix(s2, all_sample, 1)) \cup {0}]
    ELSE [sample1_list |-> Selected(s1.samples, all_sample, Len(s1.samples)),
          sample2_list |-> Selected(s2, all_sample, Len(s2))]

\* nothing listed
NoLists == [all_sample |-> <<>>, sample1_list |-> {}, sample2_list |-> {}]

\* lines 708-763, with the names read and one level selected
VolcanoLevel(inp, all_replicates, selected_level) ==
    IF all_replicates = <<>>                        \* all_replicates[0]
    THEN [exc |-> "IndexError", note |-> ""] @@ NoLists
    ELSE LET max_level == Len(Split(all_replicates[1], "_")) - 1
             all_sample == VolcanoSamples(all_replicates, 1,
                                          max_level - selected_level, <<DEFAULT>>)
         IN  IF max_level = selected_level
             THEN [exc |-> "none", note |-> "lowest level"] @@ NoLists
             ELSE [exc |-> "none", note |-> "", all_sample |-> all_sample]
                  @@ VolcanoSelection(inp.sample1_list, inp.sample2_list, all_sample)

\* customize_volcano, lines 676-763
customize_volcano(inp) ==
    IF Cardinality(inp.all_level) # 1
    THEN [exc |-> "none", note |-> "level"] @@ NoLists
    ELSE IF SampleNames(inp).exc # "none"
    THEN [exc |-> SampleNames(inp).exc, note |-> ""] @@ NoLists
    ELSE VolcanoLevel(inp, SampleNames(inp).names, CHOOSE l \in inp.all_level : TRUE)

\* lines 821-826: the loop over all_replicates from i on; the second
\* del sample[-1] of a name with no "_" raises IndexError
RECURSIVE TimecourseSamples(_, _, _)
TimecourseSamples(all_replicates, i, all_sample) ==
    IF i > Len(all_replicates) THEN [exc |-> "none", all_sample |-> all_sample]
    ELSE IF Len(Split(all_replicates[i], "_")) < 2
    THEN [exc |-> "IndexError", all_sample |-> all_sample]
    ELSE TimecourseSamples(all_replicates, i + 1,
            IF \/ Join("_", DelTail(Split(all_replicates[i], "_"), 2)) \in Range(all_sample)
               \/ Join("_", DelTail(Split(all_replicates[i], "_"), 2)) = <<>>
            THEN all_sample
            ELSE Append(all_sample, Join("_", DelTail(Split(all_replicates[i], "_"), 2))))

\* lines 871-883: the earlier selection; normalizing_sample has the entry
\* None before the samples
TimecourseSelection(s, samples_to_plot, all_sample) ==
    IF s # NONE /\ s \notin Range(all_sample)
    THEN [normalizing_sample |-> {0}, sample_list |-> {}]
    ELSE [normalizing_sample |->
              {IF s = NONE THEN 0 ELSE ListIndex(all_sample, s) + 1}
              \cup (IF FoundPrefix(samples_to_plot, all_sample, 1) < Len(samples_to_plot)
                    THEN {0} ELSE {}),
          sample_list |-> Selected(samples_to_plot, all_sample,
                                   FoundPrefix(samples_to_plot, all_sample, 1))]

\* lines 819-883, with the names read
TimecourseListed(inp, r) ==
    IF r.exc # "none"
    THEN [exc |-> r.exc, note |-> "", all_sample |-> <<>>,
          normalizing_sample |-> {}, sample_list |-> {}]
    ELSE IF r.all_sample = <<>>
    THEN [exc |-> "none", note |-> "not found", all_sample |-> <<>>,
          normalizing_sample |-> {}, sample_list |-> {}]
    ELSE [exc |-> "none", note |-> "", all_sample |-> r.all_sample]
         @@ TimecourseSelection(inp.sample_to_normalize, inp.samples_to_plot, r.all_sample)

\* customize_timecourse, lines 801-883
customize_timecourse(inp) ==
    IF SampleNames(inp).exc # "none"
    THEN [exc |-> SampleNames(inp).exc, note |-> "", all_sample |-> <<>>,
          normalizing_sample |-> {}, sample_list |-> {}]
    ELSE TimecourseListed(inp, TimecourseSamples(SampleNames(inp).names, 1, <<>>))

\* the names of a reader's all_replicates, at two and three levels
A_B == Join("_", <<A, B>>)
A_B_C == Join("_", <<A, B, C>>)
A_B_D == Join("_", <<A, B, D>>)
B_B_C == Join("_", <<B, B, C>>)
GuiNames == {<<>>, <<A_B>>, <<A_B_C, A_B_D>>, <<A_B_C, B_B_C>>}

\* the configs of the window: no entry of the selected reader, or its names
GuiConfigs == {<<>>} \cup {(SPECTRO :> ("all_replicates" :> n)) : n \in GuiNames}

\* config/sample_mapping.txt: absent, empty, the header alone, one name,
\* two names with no line end after the last, a blank last line
HEADER == <<"o", "l", "d">> \o <<TAB>> \o <<"n", "e", "w">> \o <<NEWLINE>>
MappingFiles ==
    {[exists |-> FALSE, lines |-> <<>>]} \cup
    {[exists |-> TRUE, lines |-> l] :
        l \in {<<>>, <<HEADER>>,
               <<HEADER, D \o <<TAB>> \o A_B_C \o <<NEWLINE>>>>,
               <<HEADER, D \o <<TAB>> \o A_B_C \o <<NEWLINE>>, D \o <<TAB>> \o B_B_C>>,
               <<HEADER, D \o <<TAB>> \o A_B_C \o <<NEWLINE>>, <<NEWLINE>>>>}}

\* the levels that can be ticked for the volcano plot
Levels == 0 .. 2
\* the earlier choices of the plot settings
Sample1Lists == {[default |-> TRUE, samples |-> <<>>], [default |-> FALSE, samples |-> <<A>>]}
Sample2Lists == {<<A>>, <<D>>}
NormalizeSamples == {NONE, A, D}
SamplesToPlot == {<<>>, <<A>>, <<D>>}
\* the pathway and GO files configured and found
FileLists == {<<>>, <<A>>, <<B, A>>}

(***************************************************************************)
(* State.                                                                  *)
(***************************************************************************)
VARIABLES
    op,                      \* the operation called
    pc,                      \* "call", then "done" or "raised"
    exc,                     \* the exception raised, "none" if none
    exc_names,               \* the sample names the exception's message holds
    exists,                  \* the directory start_dir exists
    fs,                      \* the files of the directory and their contents
    list_files,              \* the list ext_change returned last
    tried,                   \* the separators the sniffing loop tried
    df,                      \* the table the sniffing loop ended with
    columns,                 \* df.columns of that table
    config_arg,              \* the reader_config handed to the constructor
    reader_config,           \* self.reader_config
    processed_cols,          \* processed_cols when format_spektrocols ended
    intensity_column_names,  \* self.intensity_column_names
    analysis_design,         \* self.analysis_design
    names,                   \* the argument of get_analysis_design
    design,                  \* the value get_analysis_design returns
    use_imputed,             \* SpectroReader.use_imputed
    format_doubleindx,       \* SpectroReader.format_doubleindx
    indx,                    \* df[self.index_col]
    new_indx,                \* the value format_double_indx returns
    df_index,                \* the index of the matrix preprocess_proteins returns
    matrix,                  \* the columns and values of that matrix
    table,                   \* the argument of preprocess_df at the call
    table_left,              \* the argument of preprocess_df after the call
    calls,                   \* the calls of ext_change made
    first_list,              \* the list the first call of ext_change returned
    first_fs,                \* the directory the first call of ext_change left
    run,                     \* the MSPInitializer of read_data and its inputs
    data_dict,               \* a DataDict, its data source and the loads made
    gui                      \* the MSPGUI: its widgets, threads and callbacks

vars == <<op, pc, exc, exc_names, exists, fs, list_files, tried, df, columns,
          config_arg, reader_config, processed_cols, intensity_column_names,
          analysis_design, names, design, use_imputed, format_doubleindx, indx,
          new_indx, df_index, matrix, table, table_left, calls, first_list,
          first_fs, run, data_dict, gui>>

dirVars == <<exists, fs, list_files>>
sniffVars == <<tried, df, columns>>
readerVars == <<config_arg, reader_config, processed_cols,
                intensity_column_names, analysis_design>>
designVars == <<names, design>>
flagVars == <<use_imputed, format_doubleindx>>
indexVars == <<indx, new_indx, df_index, matrix>>
tableVars == <<table, table_left>>
extVars == <<calls, first_list, first_fs>>
readVars == <<dirVars, sniffVars, readerVars, designVars, flagVars, indexVars,
              tableVars, first_list, first_fs>>

\* the MSPInitializer before read_data: no reader data, nothing loaded
NoRun ==
    [configs |-> <<>>, reader_data |-> {}, steps |-> <<>>, skipped |-> {},
     exc |-> "none", interest |-> "None", has_config_dir |-> FALSE,
     config_files |-> <<>>, fs |-> <<>>,
     readers |-> <<>>, mq |-> "none", found |-> FALSE, configs_arg |-> <<>>,
     file_path_yaml |-> [kind |-> "None", path |-> <<>>], yml_files |-> <<>>,
     value |-> <<>>, path_before |-> [kind |-> "None", path |-> <<>>],
     config_files_arg |-> <<>>]

\* no DataDict and no MSPGUI
NoDataDict == [store |-> <<>>, source |-> <<>>, loads |-> <<>>, key |-> "", ret |-> <<>>]
NoGui ==
    [err |-> "unset", warningbox |-> 0, start_thread |-> 0, report_thread |-> 0,
     threads |-> <<>>, boxes |-> <<>>, pending |-> {}, popups |-> <<>>,
     outcome |-> <<>>, tcl_errors |-> <<>>,
     inp |-> [mapping |-> [exists |-> FALSE, lines |-> <<>>]], shown |-> [exc |-> "none"]]

\* what every operation starts from
Start ==
    /\ pc = "call"
    /\ exc = "none"
    /\ exc_names = {}
    /\ list_files = <<>>
    /\ tried = <<>>
    /\ df = EmptyFrame
    /\ columns = <<>>
    /\ processed_cols = <<>>
    /\ design = NoneVal
    /\ indx = <<>>
    /\ new_indx = <<>>
    /\ df_index = <<>>
    /\ matrix = EmptyFrame
    /\ table_left = EmptyFrame
    /\ calls = 0
    /\ first_list = <<>>
    /\ first_fs = <<>>

\* a reader not yet constructed, with the configuration handed to it
Unconstructed ==
    /\ reader_config = config_arg
    /\ intensity_column_names = <<>>
    /\ analysis_design = NoneVal

\* no reader and no file in start_dir
NoReader ==
    /\ fs = <<>>
    /\ config_arg = NoConfig
    /\ Unconstructed
    /\ use_imputed = FALSE /\ format_doubleindx = FALSE
    /\ names = <<>> /\ table = EmptyFrame

\* a reader constructed on the directory, without a configuration
Constructed ==
    \E c \in {Construct(TRUE, fs, <<DataFile>>, NoConfig)} :
        /\ config_arg = NoConfig
        /\ reader_config = c.reader_config
        /\ intensity_column_names = c.intensity_column_names
        /\ analysis_design = c.analysis_design

\* the constructor on a file of up to MaxCols columns, with a
\* configuration of an earlier run or none
InitReader ==
    /\ op = "SpectroReader"
    /\ exists = TRUE
    /\ \E cols \in {q \in SeqsUpTo(Headers, MaxCols) : Distinct(q)} :
          fs = OneFile(Csv(Frame(cols, <<>>)))
    /\ config_arg \in ReaderConfigs
    /\ Unconstructed
    /\ use_imputed = FALSE /\ format_doubleindx = FALSE
    /\ names = <<>> /\ table = EmptyFrame /\ run = NoRun

\* the constructor on the directories of the sniffing
InitSniff ==
    /\ op = "SpectroReader"
    /\ \/ exists = TRUE /\ fs \in SniffDirs
       \/ exists = FALSE /\ fs = <<>>
    /\ config_arg = NoConfig
    /\ Unconstructed
    /\ use_imputed = FALSE /\ format_doubleindx = FALSE
    /\ names = <<>> /\ table = EmptyFrame /\ run = NoRun

\* the constructor on a file of one row of PG.ProteinGroups, PG.Genes and
\* the two columns of one sample
InitGroups ==
    /\ op = "SpectroReader"
    /\ exists = TRUE
    /\ \E t \in {g \in GroupTables : Len(g.rows) = 1} : fs = OneFile(Csv(t))
    /\ config_arg = NoConfig
    /\ Unconstructed
    /\ use_imputed = FALSE /\ format_doubleindx = FALSE
    /\ names = <<>> /\ table = EmptyFrame /\ run = NoRun

InitDesign ==
    /\ op = "get_analysis_design"
    /\ names \in SeqsUpTo(Names, MaxNames)
    /\ exists = TRUE /\ fs = <<>>
    /\ config_arg = NoConfig
    /\ Unconstructed
    /\ use_imputed = FALSE /\ format_doubleindx = FALSE
    /\ table = EmptyFrame /\ run = NoRun

\* preprocess_proteins of a reader constructed on a file of identifiers
InitIndex ==
    /\ op = "preprocess_proteins"
    /\ exists = TRUE
    /\ \E q \in SeqsUpTo(Identifiers, MaxIndx) : fs = OneFile(Csv(IndexTable(q)))
    /\ Constructed
    /\ use_imputed = FALSE
    /\ format_doubleindx \in BOOLEAN
    /\ names = <<>> /\ table = EmptyFrame /\ run = NoRun

\* preprocess_proteins of a reader constructed on a file of quantities
InitMatrix ==
    /\ op = "preprocess_proteins"
    /\ exists = TRUE
    /\ \E t \in QuantityTables : fs = OneFile(Csv(t))
    /\ Constructed
    /\ use_imputed \in BOOLEAN
    /\ format_doubleindx = FALSE
    /\ names = <<>> /\ table = EmptyFrame /\ run = NoRun

InitTable ==
    /\ op = "preprocess_df"
    /\ table \in GroupTables
    /\ exists = TRUE /\ fs = <<>>
    /\ config_arg = NoConfig
    /\ Unconstructed
    /\ use_imputed = FALSE /\ format_doubleindx = FALSE
    /\ names = <<>> /\ run = NoRun

InitExt ==
    /\ op = "ext_change"
    /\ exists = TRUE
    /\ \E S \in {T \in SUBSET FileNames : Cardinality(T) <= MaxFiles} :
          fs = [f \in S |-> ContentOf(f)]
    /\ config_arg = NoConfig
    /\ Unconstructed
    /\ use_imputed = FALSE /\ format_doubleindx = FALSE
    /\ names = <<>> /\ table = EmptyFrame /\ run = NoRun

\* read_data of an MSPInitializer whose configs were loaded from the yml
\* file; the config directory lies in start_dir
InitRun ==
    /\ op = "read_data"
    /\ exists \in BOOLEAN
    /\ fs \in IF exists THEN RunDirs ELSE {<<>>}
    /\ \E cfg \in RunConfigs, rd \in ReaderOrders, mq \in MQOutcomes,
          found \in BOOLEAN, dir \in BOOLEAN, old \in BOOLEAN :
          /\ dir => exists
          /\ old => dir
          /\ run = [NoRun EXCEPT !.configs = cfg, !.configs_arg = cfg,
                                 !.readers = rd, !.mq = mq, !.found = found,
                                 !.has_config_dir = dir, !.fs = fs,
                                 !.config_files =
                                     IF old THEN [f \in {YML} |-> cfg] ELSE <<>>]
    /\ config_arg = NoConfig
    /\ Unconstructed
    /\ use_imputed = FALSE /\ format_doubleindx = FALSE
    /\ names = <<>> /\ table = EmptyFrame

\* a DataDict made empty, or with data handed to dict.__init__
InitDataDict ==
    /\ op = "DataDict"
    /\ exists = TRUE /\ NoReader /\ run = NoRun /\ gui = NoGui
    /\ \E source \in [DataKeys -> Sources], given \in SUBSET DataKeys :
          /\ Cardinality(given) <= 1
          /\ data_dict = [store |-> [k \in given |-> <<k, 0>>],
                          source |-> source,
                          loads |-> [k \in DataKeys |-> 0],
                          key |-> "", ret |-> <<>>]

\* an assignment to file_path_yaml of an MSPInitializer that holds the
\* path and the configs of an earlier assignment, the configs changed
\* since or not
InitYaml ==
    /\ op = "file_path_yaml"
    /\ exists \in BOOLEAN
    /\ NoReader /\ data_dict = NoDataDict /\ gui = NoGui
    /\ \E value \in YamlValues, files \in YamlFiles, dir \in BOOLEAN, old \in BOOLEAN,
          before \in {DefaultYmlPath, ConfigYmlPath},
          cfg \in {DefaultConfigs, [DefaultConfigs EXCEPT ![GOTERMS] = <<NOTES>>]} :
          /\ dir => exists
          /\ old => dir
          /\ before = ConfigYmlPath => old
          /\ run = [NoRun EXCEPT !.configs = cfg, !.configs_arg = cfg,
                                 !.has_config_dir = dir,
                                 !.config_files =
                                     IF old THEN [f \in {YML} |-> UserConfigs] ELSE <<>>,
                                 !.yml_files = files,
                                 !.file_path_yaml = before,
                                 !.path_before = before,
                                 !.value = value]

\* update_config_file of an MSPInitializer whose configs were changed
\* after they were loaded, or not
InitUpdate ==
    /\ op = "update_config_file"
    /\ exists = TRUE
    /\ NoReader /\ data_dict = NoDataDict /\ gui = NoGui
    /\ \E cfg \in {DefaultConfigs, UserConfigs}, dir \in BOOLEAN, files \in ConfigDirs :
          /\ files # <<>> => dir
          /\ run = [NoRun EXCEPT !.configs = cfg, !.configs_arg = cfg,
                                 !.has_config_dir = dir,
                                 !.config_files = files,
                                 !.config_files_arg = files]

\* the window of the MSPGUI with no run started
InitGui ==
    /\ op = "MSPGUI"
    /\ exists = TRUE
    /\ NoReader /\ run = NoRun /\ data_dict = NoDataDict
    /\ gui = NoGui

\* the lists of the window filled: update_listboxes
InitListboxes ==
    /\ op = "update_listboxes"
    /\ exists = TRUE
    /\ NoReader /\ run = NoRun /\ data_dict = NoDataDict
    /\ \E mapping \in MappingFiles, configs \in GuiConfigs,
          pathways \in FileLists, list_full \in FileLists :
          gui = [NoGui EXCEPT !.inp =
                    [mapping |-> mapping, configs |-> configs, selected_reader |-> SPECTRO,
                     pathways |-> pathways, list_full_pathways |-> list_full,
                     go_terms |-> <<A>>, list_full_gos |-> list_full]]

\* the volcano samples popup opened: customize_volcano
InitVolcano ==
    /\ op = "customize_volcano"
    /\ exists = TRUE
    /\ NoReader /\ run = NoRun /\ data_dict = NoDataDict
    /\ \E mapping \in MappingFiles, configs \in GuiConfigs, all_level \in SUBSET Levels,
          s1 \in Sample1Lists, s2 \in Sample2Lists :
          gui = [NoGui EXCEPT !.inp =
                    [mapping |-> mapping, configs |-> configs, selected_reader |-> SPECTRO,
                     all_level |-> all_level, sample1_list |-> s1, sample2_list |-> s2]]

\* the timecourse samples popup opened: customize_timecourse
InitTimecourse ==
    /\ op = "customize_timecourse"
    /\ exists = TRUE
    /\ NoReader /\ run = NoRun /\ data_dict = NoDataDict
    /\ \E mapping \in MappingFiles, configs \in GuiConfigs,
          s \in NormalizeSamples, samples_to_plot \in SamplesToPlot :
          gui = [NoGui EXCEPT !.inp =
                    [mapping |-> mapping, configs |-> configs, selected_reader |-> SPECTRO,
                     sample_to_normalize |-> s, samples_to_plot |-> samples_to_plot]]

Init ==
    /\ \/ /\ \/ InitReader \/ InitSniff \/ InitGroups \/ InitDesign \/ InitIndex
             \/ InitMatrix \/ InitTable \/ InitExt \/ InitRun
          /\ data_dict = NoDataDict /\ gui = NoGui
       \/ InitDataDict \/ InitYaml \/ InitUpdate \/ InitGui
       \/ InitListboxes \/ InitVolcano \/ InitTimecourse
    /\ Start

(***************************************************************************)
(* Operations.                                                             *)
(***************************************************************************)
\* SpectroReader(start_dir, reader_config): an exception other than
\* FileNotFoundError leaves the constructor as it is
SpectroReaderInit ==
    /\ op = "SpectroReader" /\ pc = "call"
    /\ \E listing \in Listings(fs) :
          \E r \in {Construct(exists, fs, listing, reader_config)} :
              /\ fs' = r.fs
              /\ list_files' = r.list_files
              /\ tried' = r.tried
              /\ df' = r.df
              /\ columns' = r.df.columns
              /\ processed_cols' = r.processed_cols
              /\ IF r.exc # "none"
                 THEN /\ pc' = "raised"
                      /\ exc' = r.exc
                      /\ exc_names' = r.names
                      /\ UNCHANGED <<reader_config, intensity_column_names,
                                     analysis_design>>
                 ELSE /\ pc' = "done"
                      /\ UNCHANGED <<exc, exc_names>>
                      /\ analysis_design' = r.analysis_design
                      /\ intensity_column_names' = r.intensity_column_names
                      /\ reader_config' = r.reader_config
    /\ UNCHANGED <<op, exists, config_arg, designVars, flagVars, indexVars,
                   tableVars, extVars, run>>
    /\ UNCHANGED <<data_dict, gui>>

\* get_analysis_design(names)
GetAnalysisDesign ==
    /\ op = "get_analysis_design" /\ pc = "call"
    /\ LET r == get_analysis_design(names)
       IN  IF r.exc # "none"
           THEN pc' = "raised" /\ exc' = r.exc /\ exc_names' = r.names
                /\ UNCHANGED design
           ELSE pc' = "done" /\ design' = r.val /\ UNCHANGED <<exc, exc_names>>
    /\ UNCHANGED <<op, names, dirVars, sniffVars, readerVars, flagVars, indexVars,
                   tableVars, extVars, run>>
    /\ UNCHANGED <<data_dict, gui>>

\* reader.preprocess_proteins(); index_col is the default, "PG.Genes"
PreprocessProteins ==
    /\ op = "preprocess_proteins" /\ pc = "call"
    /\ \E listing \in Listings(fs) :
          \E e \in {ext_change(fs, listing)} :
          \E s \in {Sniff(FileDir(e))} :
          \E m \in {Matrix(s.df, GenesCol, intensity_column_names, use_imputed)} :
              /\ fs' = e.fs
              /\ list_files' = e.list_files
              /\ tried' = s.tried
              /\ df' = s.df
              /\ columns' = s.df.columns
              /\ indx' = m.use_index
              /\ IF m.exc # "none"
                 THEN /\ pc' = "raised"
                      /\ exc' = m.exc
                      /\ UNCHANGED <<new_indx, df_index, matrix>>
                 ELSE /\ pc' = "done"
                      /\ UNCHANGED exc
                      /\ new_indx' = format_double_indx(m.use_index)
                      /\ df_index' = PreprocessIndex(m.use_index)
                      /\ matrix' = m.df
    /\ UNCHANGED <<op, exc_names, exists, readerVars, designVars, flagVars,
                   tableVars, extVars, run>>
    /\ UNCHANGED <<data_dict, gui>>

\* reader.preprocess_df(df)
PreprocessDf ==
    /\ op = "preprocess_df" /\ pc = "call"
    /\ \E r \in {preprocess_df(table)} :
           /\ table_left' = r.raw
           /\ df' = r.df
           /\ pc' = IF r.exc = "none" THEN "done" ELSE "raised"
           /\ exc' = r.exc
    /\ UNCHANGED <<op, exc_names, dirVars, tried, columns, readerVars, designVars,
                   flagVars, indexVars, table, extVars, run>>
    /\ UNCHANGED <<data_dict, gui>>

\* reader.ext_change(data_dir), called again and again on the directory
ExtChange ==
    /\ op = "ext_change" /\ pc = "call"
    /\ \E listing \in Listings(fs) :
          LET e == ext_change(fs, listing)
          IN  /\ fs' = e.fs
              /\ list_files' = e.list_files
              /\ first_list' = IF calls = 0 THEN e.list_files ELSE first_list
              /\ first_fs' = IF calls = 0 THEN e.fs ELSE first_fs
    /\ calls' = calls + 1
    /\ pc' = IF calls + 1 = MaxCalls THEN "done" ELSE "call"
    /\ UNCHANGED <<op, exc, exc_names, exists, sniffVars, readerVars, designVars,
                   flagVars, indexVars, tableVars, run>>
    /\ UNCHANGED <<data_dict, gui>>

\* initializer.read_data()
ReadData ==
    /\ op = "read_data" /\ pc = "call"
    /\ \E listing \in Listings(fs) :
          \E r \in {read_data(run, run.readers, exists, listing, run.mq, run.found)} :
              /\ run' = r
              /\ fs' = r.fs
              /\ pc' = IF r.exc = "none" THEN "done" ELSE "raised"
              /\ exc' = r.exc
    /\ UNCHANGED <<op, exc_names, exists, list_files, sniffVars, readerVars,
                   designVars, flagVars, indexVars, tableVars, extVars>>
    /\ UNCHANGED <<data_dict, gui>>

\* data_dict[key], again and again
DataDictLookup ==
    /\ op = "DataDict" /\ pc = "call"
    /\ \E key \in DataKeys :
          \E r \in {Subscript(data_dict, key)} :
              /\ data_dict' = r.dd
              /\ exc' = r.exc
    /\ calls' = calls + 1
    /\ pc' = IF calls + 1 = MaxLookups THEN "done" ELSE "call"
    /\ UNCHANGED <<op, exc_names, readVars, run, gui>>

\* initializer.file_path_yaml = value
SetFilePathYaml ==
    /\ op = "file_path_yaml" /\ pc = "call"
    /\ \E r \in {file_path_yaml(run, run.value, exists)} :
          /\ run' = r
          /\ exc' = r.exc
          /\ pc' = IF r.exc = "none" THEN "done" ELSE "raised"
    /\ UNCHANGED <<op, exc_names, readVars, calls, data_dict, gui>>

\* update_config_file, line 209: without the config directory open raises
UpdateOpen ==
    /\ op = "update_config_file" /\ pc = "call"
    /\ IF run.has_config_dir
       THEN /\ run' = [run EXCEPT !.config_files = OpenTmp(@)]
            /\ pc' = "opened"
            /\ UNCHANGED exc
       ELSE /\ run' = [run EXCEPT !.exc = "FileNotFoundError"]
            /\ pc' = "raised"
            /\ exc' = "FileNotFoundError"
    /\ UNCHANGED <<op, exc_names, readVars, calls, data_dict, gui>>

\* line 210: the dump completes, or raises and leaves what was written
UpdateDump ==
    /\ op = "update_config_file" /\ pc = "opened"
    /\ \/ /\ run' = [run EXCEPT !.config_files = DumpTmp(@, run.configs)]
          /\ pc' = "dumped"
          /\ UNCHANGED exc
       \/ /\ run' = [run EXCEPT !.exc = "OSError"]
          /\ pc' = "raised"
          /\ exc' = "OSError"
    /\ UNCHANGED <<op, exc_names, readVars, calls, data_dict, gui>>

\* lines 213-215
UpdateRemove ==
    /\ op = "update_config_file" /\ pc = "dumped"
    /\ run' = [run EXCEPT !.config_files = RemoveYml(@)]
    /\ pc' = "removed"
    /\ UNCHANGED <<op, exc, exc_names, readVars, calls, data_dict, gui>>

\* line 218
UpdateRename ==
    /\ op = "update_config_file" /\ pc = "removed"
    /\ run' = [run EXCEPT !.config_files = RenameTmp(@)]
    /\ pc' = "done"
    /\ UNCHANGED <<op, exc, exc_names, readVars, calls, data_dict, gui>>

\* the Start button is pressed: start_button
StartButton ==
    /\ op = "MSPGUI" /\ Len(gui.threads) < MaxPresses
    /\ gui' = Pressed(gui, "start")
    /\ UNCHANGED <<op, pc, exc, exc_names, readVars, calls, run, data_dict>>

\* the Create Report button is pressed: report_button
ReportButton ==
    /\ op = "MSPGUI" /\ Len(gui.threads) < MaxPresses
    /\ gui' = Pressed(gui, "report")
    /\ UNCHANGED <<op, pc, exc, exc_names, readVars, calls, run, data_dict>>

\* a worker thread ends: start_ops or report_ops
ThreadEnds ==
    /\ op = "MSPGUI"
    /\ \E t \in DOMAIN gui.threads, outcome \in Outcomes :
          /\ gui.threads[t].alive
          /\ gui' = Ended(gui, t, outcome)
    /\ UNCHANGED <<op, pc, exc, exc_names, readVars, calls, run, data_dict>>

\* a scheduled callback runs: check_mspypeline_thread or check_report_thread
CheckThread ==
    /\ op = "MSPGUI"
    /\ \E p \in gui.pending : gui' = Checked(gui, p)
    /\ UNCHANGED <<op, pc, exc, exc_names, readVars, calls, run, data_dict>>

\* self.update_listboxes()
UpdateListboxes ==
    /\ op = "update_listboxes" /\ pc = "call"
    /\ \E r \in {update_listboxes(gui.inp)} :
          /\ gui' = [gui EXCEPT !.shown = r]
          /\ exc' = r.exc
          /\ pc' = IF r.exc = "none" THEN "done" ELSE "raised"
    /\ UNCHANGED <<op, exc_names, readVars, calls, run, data_dict>>

\* self.customize_volcano()
CustomizeVolcano ==
    /\ op = "customize_volcano" /\ pc = "call"
    /\ \E r \in {customize_volcano(gui.inp)} :
          /\ gui' = [gui EXCEPT !.shown = r]
          /\ exc' = r.exc
          /\ pc' = IF r.exc = "none" THEN "done" ELSE "raised"
    /\ UNCHANGED <<op, exc_names, readVars, calls, run, data_dict>>

\* self.customize_timecourse()
CustomizeTimecourse ==
    /\ op = "customize_timecourse" /\ pc = "call"
    /\ \E r \in {customize_timecourse(gui.inp)} :
          /\ gui' = [gui EXCEPT !.shown = r]
          /\ exc' = r.exc
          /\ pc' = IF r.exc = "none" THEN "done" ELSE "raised"
    /\ UNCHANGED <<op, exc_names, readVars, calls, run, data_dict>>

Next ==
    \/ SpectroReaderInit \/ GetAnalysisDesign \/ PreprocessProteins
    \/ PreprocessDf \/ ExtChange \/ ReadData
    \/ DataDictLookup \/ SetFilePathYaml
    \/ UpdateOpen \/ UpdateDump \/ UpdateRemove \/ UpdateRename
    \/ StartButton \/ ReportButton \/ ThreadEnds \/ CheckThread
    \/ UpdateListboxes \/ CustomizeVolcano \/ CustomizeTimecourse

Spec == Init /\ [][Next]_vars

(***************************************************************************)
(* Properties.                                                             *)
(***************************************************************************)
\* the "_"-separated tokens of a name
Tokens(name) == Split(name, "_")
\* all names of the list have the same number of tokens
SameArity(q) == \A i, j \in DOMAIN q : Len(Tokens(q[i])) = Len(Tokens(q[j]))

RECURSIVE Leaves(_, _)
\* the leaves of a design below the path prefix: <<path of keys, value>>
Leaves(d, prefix) ==
    IF ~IsMapping(d) THEN {<<prefix, d.s>>}
    ELSE UNION {Leaves(d.items[i][2], Append(prefix, d.items[i][1])) : i \in DOMAIN d.items}

\* one leaf for every name, at the path of its tokens, holding the name
LeavesOf(q) == {<<Tokens(q[i]), q[i]>> : i \in DOMAIN q}
\* the lengths of the paths that end in a leaf
LeafDepths(d) == {Len(l[1]) : l \in Leaves(d, <<>>)}

\* the permutations of 1..n, and a list reordered by one
Perms(n) == {f \in [1..n -> 1..n] : \A i, j \in 1..n : i # j => f[i] # f[j]}
Permute(q, f) == [i \in 1..Len(q) |-> q[f[i]]]

\* format_spektrocols normalized every column and handed every name to
\* dictizeString: it returned, or dictizeString raised
Dictized ==
    /\ op = "SpectroReader" /\ pc # "call"
    /\ exc \notin {"IndexError", "UnboundLocalError", "MissingFilesException"}
ReaderDone == op = "SpectroReader" /\ pc = "done"
DesignEnded == op = "get_analysis_design" /\ pc # "call"
DesignDone == op = "get_analysis_design" /\ pc = "done"

\* C1: for pairwise distinct names of equal token arity the builder
\* (dictizeString under format_spektrocols, fill_dict under
\* get_analysis_design) returns a design whose leaves are exactly one per
\* name, at the path of the name's tokens, holding the complete name.
C1_LeavesAreTheNames ==
    /\ (Dictized /\ Distinct(processed_cols) /\ SameArity(processed_cols))
          => /\ pc = "done"
             /\ Leaves(analysis_design, <<>>) = LeavesOf(processed_cols)
    /\ (DesignEnded /\ Distinct(names) /\ SameArity(names))
          => /\ pc = "done"
             /\ Leaves(design, <<>>) = LeavesOf(names)

\* two names of three tokens that share their first token are in the design
C1_Witness ==
    /\ ReaderDone /\ Len(processed_cols) = 2
    /\ Distinct(processed_cols) /\ SameArity(processed_cols)
    /\ Len(Tokens(processed_cols[1])) = 3
    /\ Tokens(processed_cols[1])[1] = Tokens(processed_cols[2])[1]
    /\ Cardinality(Leaves(analysis_design, <<>>)) = 2

\* C2: for pairwise distinct names of equal token arity, building from any
\* permutation of the list gives an equal nested mapping.
C2_OrderIndependent ==
    /\ (ReaderDone /\ Distinct(processed_cols) /\ SameArity(processed_cols))
          => \A f \in Perms(Len(FilterQuantity(columns))) :
                LET r == format_spektrocols(Permute(FilterQuantity(columns), f))
                IN  r.exc = "none" /\ DictEq(r.analysis_design, analysis_design)
    /\ (DesignDone /\ Distinct(names) /\ SameArity(names))
          => \A f \in Perms(Len(names)) :
                LET r == get_analysis_design(Permute(names, f))
                IN  r.exc = "none" /\ DictEq(r.val, design)

\* three names whose other orders insert the keys in another order
C2_Witness ==
    /\ DesignDone /\ Len(names) = 3 /\ Distinct(names) /\ SameArity(names)
    /\ \E f \in Perms(3) : get_analysis_design(Permute(names, f)).val # design

\* C3: for a non-empty list of names of k tokens every leaf of the design
\* lies k levels down and dict_depth gives k; a reader that creates the
\* design stores levels = k and level_names = [0, ..., k-1].
C3_DepthIsArity ==
    /\ (DesignDone /\ names # <<>> /\ SameArity(names))
          => LET k == Len(Tokens(names[1]))
             IN  LeafDepths(design) = {k} /\ dict_depth(design) = k
    /\ (ReaderDone /\ processed_cols # <<>> /\ SameArity(processed_cols))
          => LET k == Len(Tokens(processed_cols[1]))
             IN  /\ LeafDepths(analysis_design) = {k}
                 /\ NoDesign(config_arg)
                       => /\ reader_config["levels"] = k
                          /\ reader_config["level_names"] = [x \in 1..k |-> x - 1]

\* a reader without an earlier configuration stores three levels
C3_Witness ==
    /\ ReaderDone /\ config_arg = NoConfig /\ Len(processed_cols) = 2
    /\ SameArity(processed_cols)
    /\ reader_config["levels"] = 3
    /\ reader_config["level_names"] = <<0, 1, 2>>

\* the tokens of one name are the first tokens of a longer one
PrefixClash(q) ==
    \E i, j \in DOMAIN q :
        /\ Len(Tokens(q[i])) < Len(Tokens(q[j]))
        /\ SubSeq(Tokens(q[j]), 1, Len(Tokens(q[i]))) = Tokens(q[i])

\* C4: names of different arity that share a prefix make the builder stop
\* with an error, in either order; it returns no design.
C4_ClashRaises ==
    /\ (Dictized /\ PrefixClash(processed_cols)) => pc = "raised"
    /\ (DesignEnded /\ PrefixClash(names)) => pc = "raised"

\* the name format_spektrocols gives a column taken alone
NormName(col) == NewCol(ColIdentifier(col).val, Unbound)
\* the names that two different quantity columns of the table are both given
CollidingNames ==
    LET q == FilterQuantity(columns)
    IN  {NormName(q[i]).val : i \in {h \in DOMAIN q :
            /\ NormName(q[h]).exc = "none" /\ NormName(q[h]).val # Unbound
            /\ \E j \in DOMAIN q : j # h /\ NormName(q[j]) = NormName(q[h])}}

\* C5: when two different headers are given the same name,
\* format_spektrocols raises an error that names the colliding sample and
\* returns nothing.
C5_CollisionNamed ==
    (Dictized /\ CollidingNames # {})
        => pc = "raised" /\ exc_names \cap CollidingNames # {}

\* the number of "_"-separated parts of a column's identifier
RawArity(col) == Len(ColIdentifier(col).val)
\* the numbers of parts that lines 171-186 have a rule for
CoveredArities == {2, 3, 5, 6, 7}
\* every quantity column follows one scheme that has a rule
OneScheme ==
    LET q == FilterQuantity(columns)
    IN  /\ \A i \in DOMAIN q : RawArity(q[i]) \in CoveredArities
        /\ \A i, j \in DOMAIN q : RawArity(q[i]) = RawArity(q[j])

\* C6: when every identifier has the same number of parts and a rule covers
\* that number, the names format_spektrocols returns have one token count.
C6_UniformArity == (ReaderDone /\ OneScheme) => SameArity(intensity_column_names)

\* two identifiers of six parts, one under the "rep" rule, one not
C6_Witness ==
    /\ ReaderDone /\ OneScheme /\ Len(intensity_column_names) = 2
    /\ RawArity(FilterQuantity(columns)[1]) = 6
    /\ \E i, j \in 1..2 :
          /\ Contains(intensity_column_names[i], REP)
          /\ ~Contains(intensity_column_names[j], REP)

\* C7: when the normalized names of a file differ in token count, the
\* constructor raises and stores nothing in the configuration.
C7_MixedArityAborts ==
    (Dictized /\ ~SameArity(processed_cols))
        => pc = "raised" /\ reader_config = config_arg

\* how often a value occurs in a list, and up to position i
Occurrences(q, v) == Cardinality({j \in DOMAIN q : q[j] = v})
OccurrencesUpTo(q, v, i) == Cardinality({j \in 1..i : q[j] = v})
IndexDone == op = "preprocess_proteins" /\ pc = "done"

\* C8 as the specification states it: the output has the length of the input; a value that
\* occurs once is unchanged, any other is followed by "_" and the count of
\* its occurrences up to its position.
C8_AsClaimed ==
    IndexDone
        => /\ Len(new_indx) = Len(indx)
           /\ \A i \in DOMAIN indx :
                new_indx[i] =
                    IF Occurrences(indx, indx[i]) = 1 THEN indx[i]
                    ELSE indx[i] \o <<"_">> \o IntStr(OccurrencesUpTo(indx, indx[i], i))

\* the str forms of a list of identifiers
StrForms(q) == [i \in DOMAIN q |-> PyStr(q[i])]

\* C8, amended: as stated, with every value taken in its str form (a
\* string is itself, a missing identifier is "nan"): position i holds the
\* str form when no repeated value of the input has that form, and
\* otherwise the form followed by "_" and the count of the positions up to
\* i with that form.
C8_RenamedByStrForm ==
    IndexDone
        => /\ Len(new_indx) = Len(indx)
           /\ \A i \in DOMAIN indx :
                LET form == PyStr(indx[i])
                    repeated == \E j, h \in DOMAIN indx :
                                    j < h /\ indx[j] = indx[h] /\ PyStr(indx[h]) = form
                IN  new_indx[i] =
                        IF repeated
                        THEN form \o <<"_">> \o IntStr(OccurrencesUpTo(StrForms(indx), form, i))
                        ELSE form

\* the example of the specification: [A, B, A, C, A] gives [A_1, B, A_2, C, A_3]
C8_Witness ==
    /\ IndexDone
    /\ indx = <<A, B, A, C, A>>
    /\ new_indx = << A \o <<"_", "1">>, B, A \o <<"_", "2">>, C, A \o <<"_", "3">> >>

\* C9: the index of the matrix holds no value twice.
C9_IndexUnique == IndexDone => Distinct(df_index)

\* C10: on pairwise distinct strings format_double_indx returns its input,
\* and applied to what it returned it returns that again.
C10_IdentityOnUnique ==
    (IndexDone /\ Distinct(indx) /\ NaN \notin Range(indx))
        => /\ new_indx = indx
           /\ format_double_indx(new_indx) = new_indx

\* three distinct strings, one of them shaped like a renamed duplicate
C10_Witness ==
    /\ IndexDone /\ Len(indx) = 3 /\ Distinct(indx) /\ NaN \notin Range(indx)
    /\ <<"a", "_", "1">> \in Range(indx) /\ A \in Range(indx)
    /\ new_indx = indx

\* C11: in the matrix preprocess_proteins returns, every row whose
\* identifier is missing has the index value "nan", however many
\* identifiers are missing, and no index value is null.
C11_MissingIsNan ==
    IndexDone
        => /\ \A i \in DOMAIN indx : indx[i] = NaN => df_index[i] = NANSTR
           /\ \A i \in DOMAIN df_index : df_index[i] # NaN

\* C12: with format_doubleindx False the identifiers are not renamed, the
\* index of the matrix is the identifier column as read (a missing
\* identifier filled by line 119); they are renamed only when it is True.
C12_FlagControlsRenaming ==
    (IndexDone /\ ~format_doubleindx) => df_index = FillNa(indx)

\* the table read_csv gives for the data file, and its two kinds of columns
FileTable == fs[DataFile][","].df
RawQuantity == FilterQuantityCols(FileTable)
RawFlags == FilterIsIdentified(FileTable)
\* a flag that is not true
NotTrue(x) == x \in {BoolCell(FALSE), TextCell(FALSESTR), TextCell(FILTERED)}

\* C13: with use_imputed False every cell (i,j) of the matrix whose
\* IsIdentified flag is False, 'False' or 'Filtered' is 0, whatever the
\* file holds as its quantity; with use_imputed True the quantity the file
\* holds is kept (a number as that number, a text as itself or as the
\* number it spells).
C13_Masking ==
    IndexDone
        => \A r \in DOMAIN matrix.rows : \A j \in DOMAIN matrix.columns :
              /\ (~use_imputed /\ NotTrue(RawFlags.rows[r][j]))
                    => matrix.rows[r][j] = NumCell(ZERO)
              /\ (use_imputed /\ RawQuantity.rows[r][j].t = "num")
                    => matrix.rows[r][j] = RawQuantity.rows[r][j]
              /\ (use_imputed /\ RawQuantity.rows[r][j].t = "str"
                              /\ RawQuantity.rows[r][j].s # FILTERED)
                    => matrix.rows[r][j] \in
                          {RawQuantity.rows[r][j], ConvertString(RawQuantity.rows[r][j], ",")}

\* preprocess_df has been called on a table of exactly one row whose
\* PG.ProteinGroups field joins identifiers with ";"
OneCombinedRow ==
    /\ op = "preprocess_df" /\ pc # "call"
    /\ Len(table.rows) = 1
    /\ Contains(table.rows[1][ColPos(table, PROTEINGROUPS)].s, <<";">>)

\* C14: a table with exactly one row whose PG.ProteinGroups field joins N
\* identifiers with ";" yields, after preprocess_df, exactly N rows, the
\* i-th with the i-th identifier and with every other cell equal to the
\* cell of the original row, and the combined row is gone.  Read in the
\* widest way: a quantity may come back as the number it spells, another
\* ";"-joined text as its i-th part, and tables whose conversion of
\* quantities raises (lines 243-253) are left aside.
C14_RowExpansion ==
    (OneCombinedRow /\ exc # "ValueError")
        => LET row == table.rows[1]
               g == ColPos(table, PROTEINGROUPS)
               parts == Split(row[g].s, ";")
           IN  /\ pc = "done"
               /\ Len(df.rows) = Len(parts)
               /\ \A i \in DOMAIN df.rows :
                     /\ df.rows[i][g] = TextCell(parts[i])
                     /\ \A c \in DOMAIN row \ {g} :
                           df.rows[i][c] \in {row[c], ConvertString(row[c], ","),
                                              NewRowCell(row[c], i)}
               /\ row \notin Range(df.rows)
\* the sniffing loop of the constructor or of preprocess_proteins has run
\* on the file that ext_change listed first
SniffDone ==
    /\ op \in {"SpectroReader", "preprocess_proteins"} /\ pc # "call"
    /\ exists /\ list_files # <<>>
\* what read_csv gives for that file under a separator
ParseOf(sep) == fs[list_files[1]][sep]
\* the parse of the separator has more than one column
Accepts(sep) == ParseOf(sep).exc = "none" /\ Width(ParseOf(sep).df) > 1
\* the k-th separator is the first whose parse has more than one column
FirstAccepting(k) ==
    /\ Accepts(SEPARATORS[k])
    /\ \A j \in 1..(k - 1) : ~Accepts(SEPARATORS[j])

\* C15: the separators are tried in the order comma, tab, semicolon; the
\* table the reader uses is the parse of the first separator in that order
\* whose parse has more than one column (preprocessed by preprocess_df when
\* its first column is PG.ProteinGroups), and no separator is tried after
\* that one; when no parse has more than one column all three are tried.
C15_FirstAcceptance ==
    SniffDone
        => /\ \E n \in 0..Len(SEPARATORS) : tried = SubSeq(SEPARATORS, 1, n)
           /\ \A k \in DOMAIN SEPARATORS :
                 FirstAccepting(k)
                    => /\ tried = SubSeq(SEPARATORS, 1, k)
                       /\ LET parse == ParseOf(SEPARATORS[k]).df
                          IN  \/ df = parse
                              \/ /\ parse.columns[1] = PROTEINGROUPS
                                 /\ df \in {preprocess_df(parse).df,
                                            preprocess_df(parse).raw}
           /\ (\A k \in DOMAIN SEPARATORS : ~Accepts(SEPARATORS[k]))
                 => tried = SEPARATORS /\ Width(df) <= 1

\* the comma gives one column, the tab and the semicolon more: the tab is
\* taken and the semicolon is not tried
C15_Witness ==
    /\ SniffDone
    /\ ~Accepts(",") /\ Accepts("\t") /\ Accepts(";")
    /\ ParseOf("\t").df # ParseOf(";").df
    /\ tried = <<",", "\t">>
    /\ df = ParseOf("\t").df

\* the constructor has run on a directory that exists
ConstructorDone == op = "SpectroReader" /\ pc # "call" /\ exists

\* C16: when the directory holds no file or more than one file with the
\* extension .xls, .csv or .tsv, or no separator gives the file a table of
\* more than one column, the constructor raises MissingFilesException.
C16_MissingFilesRaised ==
    (/\ ConstructorDone
     /\ \/ Len(list_files) # 1
        \/ \A k \in DOMAIN SEPARATORS : ~Accepts(SEPARATORS[k]))
        => pc = "raised" /\ exc = "MissingFilesException"

\* read_data has run
RunDone == op = "read_data" /\ pc # "call"
\* the constructor of the k-th reader was called and raised
\* MissingFilesException: the SpectroReader does for a directory that does
\* not exist
MissingFiles(k) ==
    /\ Len(run.steps) >= k
    /\ IF run.readers[k] = SPECTRO THEN ~exists
       ELSE run.mq = "MissingFilesException"
\* every reader was constructed or skipped: no constructor raised
\* anything else
ReadersPassed ==
    \A k \in DOMAIN run.readers : run.readers[k] \in run.skipped \cup run.reader_data

BagOf(q) == [x \in Range(q) |-> Cardinality({i \in DOMAIN q : q[i] = x})]

\* C18: the first ext_change on a directory leaves no .xls file, every
\* file it lists being in the directory, and every later ext_change
\* returns the same list of files as the first (in whatever order) and
\* leaves the files and their contents as the first call left them.
C18_Idempotent ==
    (op = "ext_change" /\ calls >= 1)
        => /\ \A f \in DOMAIN first_fs : ~EndsWith(f, XLS)
           /\ Range(first_list) \subseteq DOMAIN first_fs
           /\ BagOf(list_files) = BagOf(first_list)
           /\ fs = first_fs

FourKeys == {"all_replicates", "analysis_design", "levels", "level_names"}
\* the configuration holds the key with a value that is not empty
HoldsKey(config, key) ==
    /\ key \in DOMAIN config
    /\ IF key = "analysis_design" THEN config[key] # Dict(<<>>)
       ELSE IF key = "levels" THEN config[key] # 0
       ELSE config[key] # <<>>
\* the constructor left the key as it was passed
KeptKey(key) ==
    /\ (key \in DOMAIN reader_config) = (key \in DOMAIN config_arg)
    /\ key \in DOMAIN config_arg => reader_config[key] = config_arg[key]
\* the constructor has run
Constructing == op = "SpectroReader" /\ pc # "call"

\* C19 as claimed: a reader_config passed with a non-empty all_replicates
\* and a non-empty analysis_design keeps its four keys as passed, and any
\* of the four keys is recomputed (from a file that has samples) only when
\* that key is absent or empty.
C19_AsClaimed ==
    Constructing
        => /\ (HoldsKey(config_arg, "all_replicates")
                 /\ HoldsKey(config_arg, "analysis_design"))
                 => \A key \in FourKeys : KeptKey(key)
           /\ intensity_column_names # <<>>
                 => \A key \in FourKeys : ~KeptKey(key) => ~HoldsKey(config_arg, key)

\* C19: a reader_config passed with a non-empty all_replicates and a
\* non-empty analysis_design keeps its four keys as passed; all_replicates
\* is recomputed only when it is absent or empty, and analysis_design,
\* levels and level_names only when analysis_design is absent or empty.
C19_ReusedByGuard ==
    Constructing
        => /\ (HoldsKey(config_arg, "all_replicates")
                 /\ HoldsKey(config_arg, "analysis_design"))
                 => \A key \in FourKeys : KeptKey(key)
           /\ ~KeptKey("all_replicates") => ~HoldsKey(config_arg, "all_replicates")
           /\ \A key \in FourKeys \ {"all_replicates"} :
                 ~KeptKey(key) => ~HoldsKey(config_arg, "analysis_design")

\* a configuration of an earlier run is passed, the file has other
\* columns now, and the constructor completes
C19_Witness ==
    /\ Constructing /\ pc = "done"
    /\ HoldsKey(config_arg, "all_replicates")
    /\ HoldsKey(config_arg, "analysis_design")
    /\ intensity_column_names # <<>>
    /\ intensity_column_names # config_arg["all_replicates"]
    /\ analysis_design # config_arg["analysis_design"]
    /\ reader_config = config_arg

\* the key is in both mappings or in neither, with the same value
SameEntry(before, after, key) ==
    /\ (key \in DOMAIN after) = (key \in DOMAIN before)
    /\ key \in DOMAIN before => after[key] = before[key]

\* C20: the constructor leaves every key of reader_config other than
\* all_replicates, analysis_design, levels and level_names as it was
\* passed, and read_data leaves every top-level key of configs other than
\* the entries of the readers, and every other key within those entries,
\* as it was.
C20_UnrelatedKeysKept ==
    /\ Constructing
          => \A key \in (DOMAIN reader_config \cup DOMAIN config_arg) \ FourKeys :
                SameEntry(config_arg, reader_config, key)
    /\ RunDone
          => /\ \A key \in (DOMAIN run.configs \cup DOMAIN run.configs_arg) \ {SPECTRO, MQ} :
                   SameEntry(run.configs_arg, run.configs, key)
             /\ \A name \in DOMAIN run.configs_arg \cap {SPECTRO, MQ} :
                   /\ name \in DOMAIN run.configs
                   /\ \A key \in (DOMAIN run.configs[name] \cup DOMAIN run.configs_arg[name])
                                    \ FourKeys :
                         SameEntry(run.configs_arg[name], run.configs[name], key)

\* read_data completes: the SpectroReader has filled the four empty keys
\* of its entry, whose index_col is as it was, as are the pathways
C20_Witness ==
    /\ RunDone /\ pc = "done"
    /\ SPECTRO \in DOMAIN run.configs_arg
    /\ run.configs_arg[SPECTRO] = EmptyKeys
    /\ run.configs[SPECTRO]["all_replicates"] # <<>>
    /\ run.configs[SPECTRO]["levels"] # 0
    /\ run.configs[SPECTRO][INDEXCOL] = GenesCol
    /\ run.configs[PATHWAYS] = <<NOTES>>
    /\ run.config_files[YML] = run.configs

\* preprocess_proteins has run on a file whose first column is
\* PG.ProteinGroups, with the imputed values kept
GroupsFileDone ==
    /\ op = "preprocess_proteins" /\ pc # "call"
    /\ Width(FileTable) > 0
    /\ FileTable.columns[1] = PROTEINGROUPS
    /\ use_imputed

\* C21: a quantity cell that cannot be coerced to a number after the
\* cleanup of the separators (the text 'Filtered') is 0 in the matrix and
\* is not fatal: preprocess_proteins completes, and every other text cell
\* of the quantity columns is in the matrix as the number it spells.
C21_MalformedNotFatal ==
    (/\ GroupsFileDone
     /\ \E r \in DOMAIN RawQuantity.rows : \E j \in DOMAIN RawQuantity.columns :
           RawQuantity.rows[r][j] = TextCell(FILTERED))
        => /\ pc = "done"
           /\ \A r \in DOMAIN RawQuantity.rows : \A j \in DOMAIN RawQuantity.columns :
                 LET q == RawQuantity.rows[r][j]
                 IN  /\ q = TextCell(FILTERED) => matrix.rows[r][j] = NumCell(ZERO)
                     /\ (q.t = "str" /\ q # TextCell(FILTERED))
                           => matrix.rows[r][j] = ConvertString(q, ",")

\* C25: a column whose identifier has four parts left after the two
\* leading parts are dropped gets a name of exactly three tokens: when the
\* last part contains "rep" the first two parts stay apart and the last is
\* fused with the part before it, otherwise the first two parts are fused
\* and the last stands alone.
C25_RepDecidesFusing ==
    Constructing
        => \A i \in DOMAIN processed_cols :
              LET ident == ColIdentifier(FilterQuantity(columns)[i]).val
                  c == SubSeq(ident, 3, Len(ident))
              IN  Len(ident) = 6
                     => /\ Len(Tokens(processed_cols[i])) = 3
                        /\ Tokens(processed_cols[i]) =
                              IF Contains(c[4], REP)
                              THEN <<c[1], c[2], c[3] \o c[4]>>
                              ELSE <<c[1] \o c[2], c[3], c[4]>>

\* a file with the columns d_f_a_b_b_rep and d_f_a_b_a_b: the constructor
\* names them a_b_brep and ab_a_b
C25_Witness ==
    /\ ReaderDone
    /\ FilterQuantity(columns) = <<Header(<<D, F, A, B, B, REP>>), Header(<<D, F, A, B, A, B>>)>>
    /\ intensity_column_names = <<Join("_", <<A, B, BREP>>), Join("_", <<AB, A, B>>)>>

\* the constructor has run on a file with a quantity column whose
\* identifier has a number of parts that no rule of lines 171-186 covers
NoRuleColumn ==
    /\ Constructing
    /\ \E i \in DOMAIN FilterQuantity(columns) :
          RawArity(FilterQuantity(columns)[i]) \notin CoveredArities

\* C26: a column whose identifier has 1, 4 or at least 8 parts gives no
\* name: format_spektrocols ends with an exception, be the column the first
\* or a later one, so no list of names is returned or stored, and the name
\* of the column before it is never returned in its place.
C26_NoRuleNoName ==
    NoRuleColumn
        => /\ pc = "raised"
           /\ exc \in {"IndexError", "UnboundLocalError", "TypeError", "AttributeError"}
           /\ intensity_column_names = <<>>
           /\ reader_config = config_arg

\* the second column has four parts: the loop takes the name of the first
\* for it and dictizeString raises TypeError on the leaf that is there
C26_Witness ==
    /\ NoRuleColumn /\ pc = "raised" /\ exc = "TypeError"
    /\ FilterQuantity(columns) = <<Header(<<A, B>>), Header(<<D, F, A, B>>)>>
    /\ processed_cols = <<Join("_", <<A, B>>), Join("_", <<A, B>>)>>

\* the sniffing loop accepted the parse of the k-th separator, a table
\* with PG.ProteinGroups first on which preprocess_df raises
RaisedInAccepted(k) ==
    /\ SniffDone /\ FirstAccepting(k)
    /\ ParseOf(SEPARATORS[k]).df.columns[1] = PROTEINGROUPS
    /\ preprocess_df(ParseOf(SEPARATORS[k]).df).exc # "none"

\* C27: when preprocess_df raises on the table a separator gave, the table
\* the sniffing loop accepts is that table as read_csv parsed it, with no
\* row appended.
C27_AllOrNothing ==
    \A k \in DOMAIN SEPARATORS :
        RaisedInAccepted(k) => df = ParseOf(SEPARATORS[k]).df

\* the values of the leaves of a design
LeafValues(d) == {l[2] : l \in Leaves(d, <<>>)}

\* the four keys of a configuration agree: levels is the depth of
\* analysis_design, level_names has levels entries, and every name of
\* all_replicates is the value of a leaf of analysis_design
Consistent(config) ==
    /\ config["levels"] = dict_depth(config["analysis_design"])
    /\ Len(config["level_names"]) = config["levels"]
    /\ Range(config["all_replicates"]) \subseteq LeafValues(config["analysis_design"])

\* C29: after the constructor completes, whatever reader_config was passed
\* (none, the one of an earlier run, or one holding some of the four keys),
\* reader_config holds all_replicates, analysis_design, levels and
\* level_names, and the four agree.  Stated for the files that have
\* samples.
C29_FourKeysAgree ==
    (ReaderDone /\ intensity_column_names # <<>>)
        => IF FourKeys \subseteq DOMAIN reader_config THEN Consistent(reader_config)
           ELSE FALSE

\* a lookup of the DataDict has been made
LookedUp == op = "DataDict" /\ data_dict.key # ""

\* C24: a lookup of a key that is not stored calls preprocess_<key> once,
\* stores what it returns under the key and returns it; every later lookup
\* returns the stored value and calls the data source no more; when the
\* load raises FileNotFoundError or the data source has no such method,
\* KeyError is raised and nothing is stored under the key.
C24_LoadOnceAndCache ==
    LookedUp
        => LET k == data_dict.key
           IN  /\ \A j \in DOMAIN data_dict.store :
                     /\ data_dict.loads[j] <= 1
                     /\ data_dict.store[j] \in {<<j, 0>>, <<j, 1>>}
                     /\ data_dict.store[j] = <<j, 1>> <=> data_dict.loads[j] = 1
               /\ k \in DOMAIN data_dict.store
                     => exc = "none" /\ data_dict.ret = data_dict.store[k]
               /\ (data_dict.source[k] = "returns") => k \in DOMAIN data_dict.store
               /\ (k \notin DOMAIN data_dict.store
                     /\ data_dict.source[k] \in {"FileNotFoundError", "no method"})
                     => exc = "KeyError" /\ data_dict.ret = <<>>

\* the first lookup of a key loaded and stored it, a later lookup of the
\* same key returned it with no further load
C24_Witness ==
    /\ LookedUp /\ calls >= 2
    /\ data_dict.key = "proteins"
    /\ data_dict.store = [k \in {"proteins"} |-> <<"proteins", 1>>]
    /\ data_dict.loads["proteins"] = 1 /\ data_dict.loads["peptides"] = 0
    /\ data_dict.ret = <<"proteins", 1>>

\* an assignment to file_path_yaml has been made
YamlAssigned == op = "file_path_yaml" /\ pc # "call"
\* the value is one the setter takes: default or file in any case, or a
\* path that ends in .yml or .yaml (compared in lower case, as the keywords)
YamlValueTaken(value) ==
    \/ Lower(value) \in {DEFAULT, FILE}
    \/ EndsWith(Lower(value), DOTYML) \/ EndsWith(Lower(value), DOTYAML)

\* C23: the setter of file_path_yaml takes 'default', 'file' (in any case)
\* or a path ending in .yml or .yaml; any other value raises ValueError and
\* leaves the stored path and the loaded configs as they were, and no value
\* it takes raises ValueError.
C23_InvalidValueLeavesState ==
    YamlAssigned
        => /\ ~YamlValueTaken(run.value)
                 => /\ pc = "raised" /\ exc = "ValueError"
                    /\ run.file_path_yaml = run.path_before
                    /\ run.configs = run.configs_arg
           /\ YamlValueTaken(run.value) => exc # "ValueError"

\* the value a.txt was assigned to an initializer that held config.yml of
\* start_dir and configs changed since they were loaded
C23_Witness ==
    /\ YamlAssigned /\ exc = "ValueError"
    /\ run.value = <<"a", ".", "t", "x", "t">>
    /\ run.file_path_yaml = ConfigYmlPath /\ run.path_before = ConfigYmlPath
    /\ run.configs # run.config_files[YML]
    /\ run.configs = run.configs_arg

\* update_config_file is called, or was, with config.yml in the config
\* directory before the call
UpdatingOverOld == op = "update_config_file" /\ YML \in DOMAIN run.config_files_arg
\* the file is in the config directory and holds a complete configuration
Complete(name) ==
    /\ name \in DOMAIN run.config_files
    /\ run.config_files[name] \in {run.config_files_arg[YML], run.configs}

\* C30: when config.yml exists before update_config_file is called, then
\* after every statement of it (the temporary file opened, written, the old
\* file removed, the temporary file renamed), and when it raises, config.yml
\* or config_tmp.yml holds a complete configuration; when the call returns,
\* config.yml holds the current configs and config_tmp.yml is gone.
C30_NeverWithoutConfig ==
    UpdatingOverOld
        => /\ Complete(YML) \/ Complete(YMLTMP)
           /\ pc = "done"
                 => /\ run.config_files[YML] = run.configs
                    /\ YMLTMP \notin DOMAIN run.config_files
                    /\ run.config_files = update_config_file(run.configs, run.config_files_arg)

\* the old config.yml is removed and the call has not renamed the
\* temporary file yet: config_tmp.yml alone holds the configuration
C30_Witness ==
    /\ UpdatingOverOld /\ pc = "removed"
    /\ run.configs # run.config_files_arg[YML]
    /\ YML \notin DOMAIN run.config_files
    /\ run.config_files[YMLTMP] = run.configs


\* what the thread of the press p ended with, "" while it runs
OutcomeOf(p) ==
    IF \E i \in DOMAIN gui.outcome : gui.outcome[i][1] = p
    THEN gui.outcome[CHOOSE i \in DOMAIN gui.outcome : gui.outcome[i][1] = p][2]
    ELSE ""

\* the popups the callback of the press p has shown
PopupsOf(p) == {i \in DOMAIN gui.popups : gui.popups[i].press = p}

\* nothing is running and no callback is scheduled
GuiIdle ==
    /\ gui.pending = {}
    /\ \A t \in DOMAIN gui.threads : ~gui.threads[t].alive

\* C28: every press of Start or Create Report ends in exactly one popup: it
\* is shown after the thread of that press has finished, it reports what
\* that thread ended with, and the progress box of that press is closed
C28_OnePopupPerPress ==
    op = "MSPGUI" =>
        /\ \A i \in DOMAIN gui.popups :
              /\ gui.popups[i].err = OutcomeOf(gui.popups[i].press)
              /\ gui.popups[i].box = gui.popups[i].press
        /\ \A p \in DOMAIN gui.threads : Cardinality(PopupsOf(p)) <= 1
        /\ GuiIdle =>
              \A p \in DOMAIN gui.threads :
                  /\ Cardinality(PopupsOf(p)) = 1
                  /\ gui.boxes[p] = "destroyed"


\* one of the three handlers that read config/sample_mapping.txt has run
\* in a directory without the file
MappingAbsentRun ==
    /\ op \in {"update_listboxes", "customize_volcano", "customize_timecourse"}
    /\ pc # "call"
    /\ ~gui.inp.mapping.exists

\* C22: with config/sample_mapping.txt missing, update_listboxes,
\* customize_volcano and customize_timecourse raise nothing, and the names
\* they list are those of the selected reader's all_replicates in the configs
C22_AbsentMappingNoError ==
    MappingAbsentRun =>
        /\ exc = "none"
        /\ op = "update_listboxes" =>
              gui.shown.experiments_list = ConfigNames(gui.inp.configs, gui.inp.selected_reader)

=============================================================================
